---- MODULE Spec2Model ----
(***************************************************************************)
(* jlrs C shim (jl_sys): the recursive mutex on a jl_mutex_t cell and the  *)
(* catch trampoline.                                                       *)
(*                                                                         *)
(* The mutex is modelled one memory access per step, so that every         *)
(* interleaving of the loads, compare-and-swaps and stores of concurrent   *)
(* acquire and release calls is a behaviour of Spec.  Two builds provide   *)
(* the lock: jlrs_cc_hacks.c (jlrs_lock / jlrs_lock_nogc / jlrs_unlock /   *)
(* jlrs_unlock_nogc on top of jlrs_mutex_wait / jlrs_mutex_unlock_nogc)    *)
(* and the older jlrs_cc.c / jlrs_cc.cc (jlrs_lock / jlrs_unlock, the same *)
(* text in both files).  Memory is sequentially consistent in the model.   *)
(*                                                                         *)
(* The trampoline (jlrs_try_catch, and jlrs_catch_wrapper of jlrs_cc.c and *)
(* jlrs_cc.cc) runs on one task; CatchSpec is its specification.           *)
(*                                                                         *)
(* EquivSpec runs the older lock and the bare lock side by side; FrameSpec *)
(* is jlrs_unsized_scope and jlrs_call_unchecked on one task's GC-frame    *)
(* stack and world age; AllocSpec is the scratch buffer of jlrs_tuple_of   *)
(* and jlrs_dimtuple_type; MoveSpec is jlrs_memmove_refs.                  *)
(***************************************************************************)
EXTENDS Integers, Sequences, FiniteSets, TLC

\* ------------------------------------------------------------------ bounds
NumTasks == 2
MaxDepth == 2
MaxCalls == 2
NumValues == 2
NumPtrs == 2
MaxWorld == 3
MaxArgs == 2
MaxRank == 3
MemLen == 5

Tasks == 1..NumTasks

\* (jl_task_t *)NULL: the unset owner.
NULL == 0

VARIABLES
    build,         \* "hacks": jlrs_cc_hacks.c, "cc": jlrs_cc.c / jlrs_cc.cc
    debug,         \* TRUE: assert() is compiled in (NDEBUG not defined)
    owner,         \* lock->owner: NULL or a task
    count,         \* lock->count, a uint32_t held as its two's-complement
                   \* representative (0xFFFFFFFF is -1)
    pc,            \* per task: where it is inside acquire / release
    mode,          \* per task: "tracked" (safepoint = 1) or "bare" (0)
    ol,            \* per task: the local variable `owner` of the acquire
    tmp,           \* per task: the value of count read by ++ / --
    held,          \* per task: the caller's outstanding acquires, per kind
    base,          \* ptls->locks.len of task 1's thread before its first
                   \* call (locks it holds on other cells); the other
                   \* threads start with an empty lock stack
    locks_len,     \* per task: ptls->locks.len
    locks_max,     \* per task: ptls->locks.max
    locks_heap,    \* per task: ptls->locks.items is not the inline _space
    oob,           \* items[len] was written with len >= max
    defer_signal,  \* per task: ptls->defer_signal (JL_SIGATOMIC depth)
    aborted,       \* an assert() failed: the process is gone, and every
                   \* task with it (pc = "aborted")
    violated,      \* a release was called by a task holding nothing
    started,       \* per task: it has called acquire or release
    log,           \* per task: what its current / last call did
    ownerWrite,    \* the last write to lock->owner
    countWrite,    \* the last write to lock->count
    \* ---- the catch trampoline
    variant,       \* "try_catch": jlrs_try_catch of jlrs_cc/jlrs_cc_ext.c,
                   \* "wrapper_c" / "wrapper_cc": jlrs_catch_wrapper of
                   \* jlrs_cc.c / jlrs_cc.cc
    lts,           \* TRUE: JLRS_WINDOWS_LTS is defined (no JL_TRY)
    tpc,           \* where the trampoline is: "idle", "try", "after",
                   \* "catch", "fatal"
    cb,            \* what the callback of the current call does
    res,           \* the local jlrs_catch_t res
    buf,           \* the output storage `result` points to
    buf0,          \* buf as the current call found it
    eh,            \* the task's handler stack depth (jl_enter_handler)
    excstack,      \* the task's exception stack, oldest first
    saved,         \* __excstack_state of the current JL_TRY
    ret,           \* what the last call returned
    ncb,           \* invocations of the callback by the current call
    calls,         \* trampoline calls made so far
    \* ---- the build and the lazily resolved functions (jlrs_cc/)
    selected,      \* JLRS_EXPECTED_MINOR_VERSION (0: not defined)
    minor,         \* JULIA_VERSION_MINOR of the runtime's headers
    avail,         \* the symbols jl_dlsym finds in libjulia-internal
    func,          \* the static function pointers jl_..._func
    tstate,        \* "source", "built", "build_error", "aborted" (an
                   \* assert failed), "ub" (a call through a null pointer)
    inited,        \* jlrs_init_missing_functions has returned
    last,          \* the last call of a lazily resolved entry point
    \* ---- the wrappers of jlrs_c.c
    rpc,           \* where the wrapper is: "idle", "try", "catch", "clear"
    wrapped,       \* the wrapper called and what the wrapped function does
    out,           \* the local jlrs_result_t out
    rret,          \* what the last wrapper call returned
    previous_exception,  \* ptls->previous_exception
    rcalls,        \* wrapper calls made so far
    \* ---- the older lock and the bare lock, run side by side
    hcell,         \* the cell and the tasks' positions under jlrs_lock_nogc /
                   \* jlrs_unlock_nogc of jlrs_cc_hacks.c
    ccell,         \* the same under jlrs_lock / jlrs_unlock of jlrs_cc.c
    unowned,       \* a release was called by a task that was not the owner
    ecalls,        \* per task: calls made so far
    \* ---- jlrs_call_unchecked and jlrs_unsized_scope, on one task
    fpc,           \* "idle", "apply" (inside jl_apply), "scope" (inside the
                   \* trampoline), "thrown" (left by an exception)
    world_age,     \* ct->world_age
    world_counter, \* jl_get_world_counter()
    gcstack,       \* the task's GC-frame stack, oldest first; a frame is
                   \* its number of roots
    last_age,      \* the local last_age
    argp,          \* the local argv / args: a frame and an offset in words
    fthrows,       \* the applied function / the trampoline raises
    got,           \* the frame pointers the trampoline was called with
    found,         \* the task as the current call found it
    left,          \* the task as control left the last call, and how
    fcalls,        \* calls made so far
    \* ---- jlrs_tuple_of and jlrs_dimtuple_type
    apc,           \* "idle", "loop"
    acall,         \* the call: file, function, n (or rank), sizeof(void *)
    abytes,        \* the size of the alloca'd buffer in bytes
    ai,            \* the loop variable i
    aover,         \* a write types[i] / params[i] ended past the buffer
    acalls,        \* calls made so far
    \* ---- jlrs_memmove_refs
    mpc,           \* "idle", "copy", "done"
    mem,           \* the pointer slots, by index
    mem0,          \* mem as the call found it
    margs,         \* the call: dst and src as indices into mem, and n
    mi             \* the loop variable i

stackVars == <<locks_max, locks_heap, oob>>

lockVars == <<build, debug, base, owner, count, pc, mode, ol, tmp, held,
              locks_len, stackVars,
              defer_signal, aborted, violated, started, log, ownerWrite,
              countWrite>>

catchVars == <<variant, lts, tpc, cb, res, buf, buf0, eh, excstack, saved,
               ret, ncb, calls>>

tableVars == <<selected, minor, avail, func, tstate, inited, last>>

resultVars == <<rpc, wrapped, out, rret, previous_exception, rcalls>>

equivVars == <<hcell, ccell, unowned, ecalls>>

frameVars == <<fpc, world_age, world_counter, gcstack, last_age, argp,
               fthrows, got, found, left, fcalls>>

allocVars == <<apc, acall, abytes, ai, aover, acalls>>

moveVars == <<mpc, mem, mem0, margs, mi>>

extVars == <<equivVars, frameVars, allocVars, moveVars>>

vars == <<lockVars, catchVars, tableVars, resultVars, extVars>>

\* --------------------------------------------------------------- helpers

Depth(t) == held[t].tracked + held[t].bare

\* The record of a call by t, taken as it enters: mine, whether the cell's
\* owner is t then, and cnt0, the count then when it is.  slow: the call has
\* executed a compare-and-swap, a spin iteration or a safepoint check.
\* cleared, woke: the release has stored to owner, has called jl_cpu_wake.
NewLog(op, t) ==
    [op |-> op, mine |-> (owner = t), cnt0 |-> IF owner = t THEN count ELSE 0,
     slow |-> FALSE, sp |-> FALSE, cleared |-> FALSE, woke |-> FALSE]

NoWrite == [by |-> NULL, from |-> NULL, to |-> NULL, kind |-> "none", cnt |-> 0]
NoCountWrite == [by |-> NULL, own |-> NULL, val |-> 0]

\* The re-entrant test `owner == self`.
FastPathNever(o, self) == FALSE
FastPathAny(o, self) == TRUE
FastPath(o, self) == o = self

\* jl_atomic_cmpswap(&lock->owner, &owner, self): a strong compare-and-swap.
\* cur is the cell's value, expected the local; the result is whether it
\* stored, the cell's new value and the local's new value.
CmpSwapBlind(cur, expected, desired) ==
    [ok |-> TRUE, cell |-> desired, seen |-> expected]
CmpSwap(cur, expected, desired) ==
    IF cur = expected
    THEN [ok |-> TRUE, cell |-> desired, seen |-> expected]
    ELSE [ok |-> FALSE, cell |-> cur, seen |-> cur]

\* lock->count++ and --lock->count on the value read.
IncStuck(c) == c
Inc(c) == c + 1
DecStuck(c) == c
Dec(c) == c - 1

\* lock->count = 1 after a successful compare-and-swap.
LockedCountZero == 1 - 1
LockedCount == 1

\* `--lock->count == 0`: the release clears the owner.
DecIsZeroEarly(c) == c <= 1
DecIsZero(c) == c = 0

\* What is stored to lock->owner by the release, and how.
ReleasedOwnerKept(self) == self
ReleasedOwner(self) == NULL
StoreKindPlain == "plain"
StoreKind == "atomic_store_release"

\* JL_SIGATOMIC_BEGIN / JL_SIGATOMIC_END (and the _self forms) on
\* ptls->defer_signal d: the depth of the signal-deferred region.
JL_SIGATOMIC_BEGIN(d) == d + 1
JL_SIGATOMIC_END_Skipped(d) == d
JL_SIGATOMIC_END(d) == d - 1

\* small_arraylist_t: the inline capacity (void *_space[SMALL_AL_N_INLINE]).
SMALL_AL_N_INLINE == 6

\* The length of t's lock stack before its first call.
Base(t) == IF t = 1 THEN base ELSE 0

\* -------------------------------------------------------------------- Init

LockStart ==
    /\ owner = NULL
    /\ count = 0
    /\ pc = [t \in Tasks |-> "idle"]
    /\ mode = [t \in Tasks |-> "bare"]
    /\ ol = [t \in Tasks |-> NULL]
    /\ tmp = [t \in Tasks |-> 0]
    /\ held = [t \in Tasks |-> [tracked |-> 0, bare |-> 0]]
    /\ locks_len = [t \in Tasks |-> Base(t)]
    /\ locks_max = [t \in Tasks |-> SMALL_AL_N_INLINE]
    /\ locks_heap = [t \in Tasks |-> FALSE]
    /\ oob = FALSE
    /\ defer_signal = [t \in Tasks |-> 0]
    /\ aborted = FALSE
    /\ violated = FALSE
    /\ started = [t \in Tasks |-> FALSE]
    /\ log = [t \in Tasks |-> NewLog("none", t)]
    /\ ownerWrite = NoWrite
    /\ countWrite = NoCountWrite

\* ------------------------------------------- the catch trampoline: data

\* jlrs_catch_tag_t.
JLRS_CATCH_OK == 0
JLRS_CATCH_EXCEPTION == 1
JLRS_CATCH_PANIC == 2
Tags == {JLRS_CATCH_OK, JLRS_CATCH_EXCEPTION, JLRS_CATCH_PANIC}

\* Non-null pointers (exception objects, payloads) and buffer contents.
Ptrs == 1..NumPtrs
Values == 1..NumValues

\* jlrs_catch_t.
CatchT == [tag : Tags, error : {NULL} \cup Ptrs]

\* What a callback may do: write a value through `result` or not, then
\* return a jlrs_catch_t of its own, or have the runtime throw exc.
Callbacks ==
    {b \in [writes : BOOLEAN, value : Values, throws : BOOLEAN,
            r : CatchT, exc : Ptrs] :
        /\ ~b.writes => b.value = 1
        /\ b.throws => b.r = [tag |-> JLRS_CATCH_OK, error |-> NULL]
        /\ ~b.throws => b.exc = 1}

NoCallback ==
    [writes |-> FALSE, value |-> 1, throws |-> FALSE,
     r |-> [tag |-> JLRS_CATCH_OK, error |-> NULL], exc |-> 1]

CatchStart ==
    /\ tpc = "idle"
    /\ cb = NoCallback
    /\ res = [tag |-> JLRS_CATCH_OK, error |-> NULL]
    /\ buf = 0
    /\ buf0 = 0
    /\ eh = 0
    /\ excstack = <<>>
    /\ saved = 0
    /\ ret = [tag |-> JLRS_CATCH_OK, error |-> NULL]
    /\ ncb = 0
    /\ calls = 0

\* The symbols resolved at run time, in the order of
\* jlrs_init_missing_functions, and the minor version each exists from.
Syms ==
    <<"jl_lock_value", "jl_unlock_value", "jl_memoryrefindex",
      "jl_memoryrefset", "jl_genericmemory_typetagdata",
      "jl_declare_constant_val">>

SymSet == {Syms[i] : i \in 1..Len(Syms)}

Since(sym) ==
    IF sym \in {"jl_lock_value", "jl_unlock_value"} THEN 0
    ELSE IF sym = "jl_declare_constant_val" THEN 12
    ELSE 11

\* A static function pointer before it is set.
FnNull == "NULL"

\* The sources are not built yet; no pointer is set.
TableStart ==
    /\ func = [s \in SymSet |-> FnNull]
    /\ tstate = "source"
    /\ inited = FALSE
    /\ last = [entry |-> "none", outcome |-> "none", target |-> FnNull]

\* One configuration for the specifications of the lock and the trampoline.
TableFixed ==
    /\ selected = 12 /\ minor = 12 /\ avail = SymSet
    /\ TableStart

\* jlrs_result_tag_t.
JLRS_RESULT_VOID == 0
JLRS_RESULT_VALUE == 1
JLRS_RESULT_ERR == 2
ResultTags == {JLRS_RESULT_VOID, JLRS_RESULT_VALUE, JLRS_RESULT_ERR}

\* jlrs_result_t.
ResultT == [flag : ResultTags, data : {NULL} \cup Ptrs]

\* The wrappers of jlrs_c.c around a function that returns a value, and
\* around one that returns nothing.
ValueWrappers ==
    {"jlrs_alloc_array_1d", "jlrs_alloc_array_2d", "jlrs_alloc_array_3d",
     "jlrs_apply_array_type", "jlrs_apply_type", "jlrs_new_array",
     "jlrs_new_structv", "jlrs_new_typevar", "jlrs_type_union",
     "jlrs_type_unionall", "jlrs_reshape_array"}

VoidWrappers ==
    {"jlrs_set_const", "jlrs_set_global", "jlrs_set_nth_field",
     "jlrs_array_grow_end", "jlrs_array_del_end", "jlrs_array_grow_beg",
     "jlrs_array_del_beg"}

\* A call: the wrapper, and whether the wrapped function returns value or
\* has the runtime throw exc.
WrappedCalls ==
    {w \in [fn : ValueWrappers \cup VoidWrappers, throws : BOOLEAN,
            value : Ptrs, exc : Ptrs] :
        /\ w.throws => w.value = 1
        /\ ~w.throws => w.exc = 1
        /\ w.fn \in VoidWrappers => w.value = 1}

\* No wrapper has been called.
ResultStart ==
    /\ rpc = "idle"
    /\ wrapped = [fn |-> "jlrs_set_const", throws |-> FALSE, value |-> 1,
                  exc |-> 1]
    /\ out = [flag |-> JLRS_RESULT_VOID, data |-> NULL]
    /\ rret = [flag |-> JLRS_RESULT_VOID, data |-> NULL]
    /\ previous_exception = NULL
    /\ rcalls = 0

\* One cell as a record: owner and count are the Mutex Cell, pc, ol and tmp
\* each task's position and locals, aborted a failed assert().
CellStart ==
    [owner |-> NULL, count |-> 0, pc |-> [t \in Tasks |-> "idle"],
     ol |-> [t \in Tasks |-> NULL], tmp |-> [t \in Tasks |-> 0],
     aborted |-> FALSE]

EquivStart ==
    /\ hcell = CellStart
    /\ ccell = CellStart
    /\ unowned = FALSE
    /\ ecalls = [t \in Tasks |-> 0]

\* No call so far: nothing entered, nothing left.
NoCall == [fn |-> "none", how |-> "none", world_age |-> 0, gcstack |-> <<>>,
           counter |-> 0, size |-> 0]

\* The locals and the history before the first call.
FrameLocals ==
    /\ fpc = "idle"
    /\ last_age = 0
    /\ argp = [frame |-> 0, off |-> 0]
    /\ fthrows = FALSE
    /\ got = <<>>
    /\ found = NoCall
    /\ left = NoCall
    /\ fcalls = 0

FrameStart ==
    /\ FrameLocals
    /\ world_age = 1 /\ world_counter = 1
    /\ gcstack = <<>>

\* No call of jlrs_tuple_of / jlrs_dimtuple_type so far; no call of
\* jlrs_memmove_refs so far, and MemLen slots, each holding a different
\* pointer.
PureStart ==
    /\ apc = "idle"
    /\ acall = [file |-> "none", fn |-> "none", n |-> 0, word |-> 8]
    /\ abytes = 0
    /\ ai = 0
    /\ aover = FALSE
    /\ acalls = 0
    /\ mpc = "idle"
    /\ mem = [i \in 1..MemLen |-> i]
    /\ mem0 = mem
    /\ margs = [dst |-> 1, src |-> 1, n |-> 0]
    /\ mi = 0

ExtStart == EquivStart /\ FrameStart /\ PureStart

Init ==
    /\ build \in {"hacks", "cc"}
    /\ debug \in BOOLEAN
    /\ base = 0
    /\ LockStart
    /\ variant = "try_catch" /\ lts = FALSE
    /\ CatchStart
    /\ TableFixed
    /\ ResultStart
    /\ ExtStart

\* As Init, with task 1's thread holding no or SMALL_AL_N_INLINE locks on
\* other cells, so that its lock stack grows.
StackInit ==
    /\ build \in {"hacks", "cc"}
    /\ debug \in BOOLEAN
    /\ base \in {0, SMALL_AL_N_INLINE}
    /\ LockStart
    /\ variant = "try_catch" /\ lts = FALSE
    /\ CatchStart
    /\ TableFixed
    /\ ResultStart
    /\ ExtStart

\* ------------------------------------------- jlrs_cc_hacks.c: the lock stack

\* nm = a->max * 2; if (nm == 0) nm = 1; while (newlen > nm) nm *= 2.
RECURSIVE Doubled(_, _)
Doubled(nm, newlen) == IF newlen > nm THEN Doubled(nm * 2, newlen) ELSE nm

\* jlrs_small_arraylist_grow(a, n) on a = [len, max, heap]; alloc: whether
\* LLT_ALLOC / LLT_REALLOC returns memory.  It returns with a unchanged when
\* the allocation fails.
jlrs_small_arraylist_grow(a, n, alloc) ==
    LET newlen == a.len + n IN
    IF newlen > a.max
    THEN IF ~alloc THEN a
         ELSE IF ~a.heap
              THEN [len |-> newlen, max |-> newlen, heap |-> TRUE]
              ELSE [len |-> newlen,
                    max |-> Doubled(IF a.max * 2 = 0 THEN 1 ELSE a.max * 2,
                                    newlen),
                    heap |-> TRUE]
    ELSE [a EXCEPT !.len = newlen]

\* jlrs_lock_frame_push: the list afterwards, and at (the index written by
\* locks->items[len] = lock, len being the length before).
jlrs_lock_frame_push(a, alloc) ==
    [list |-> IF a.len >= a.max
              THEN jlrs_small_arraylist_grow(a, 1, alloc)
              ELSE [a EXCEPT !.len = a.len + 1],
     at |-> a.len]

\* jlrs_lock_frame_pop: ptls->locks.len--.
jlrs_lock_frame_pop(len) == len - 1

\* ptls->locks of t.
Locks(t) == [len |-> locks_len[t], max |-> locks_max[t], heap |-> locks_heap[t]]

\* Where the spin loop goes after a failed attempt: the safepoint check when
\* safepoint = 1, the pause otherwise.
SpinNextNoSafepoint(t) == "w_pause"
SpinNext(t) == IF mode[t] = "tracked" THEN "w_sp" ELSE "w_pause"

\* jlrs_mutex_wait returns: into jlrs_lock, which pushes the lock on the
\* thread's lock stack, or into jlrs_lock_nogc.  The caller now holds one more.
\* The call's locals end with it.
EndLocals(t) ==
    /\ mode' = [mode EXCEPT ![t] = "bare"]
    /\ ol' = [ol EXCEPT ![t] = NULL]
    /\ tmp' = [tmp EXCEPT ![t] = 0]

AcquireReturn(t) ==
    /\ pc' = [pc EXCEPT ![t] = "idle"]
    /\ EndLocals(t)
    /\ held' = [held EXCEPT ![t][mode[t]] = @ + 1]
    /\ IF mode[t] = "tracked"
       THEN \E alloc \in BOOLEAN :
                LET p == jlrs_lock_frame_push(Locks(t), alloc) IN
                /\ locks_len' = [locks_len EXCEPT ![t] = p.list.len]
                /\ locks_max' = [locks_max EXCEPT ![t] = p.list.max]
                /\ locks_heap' = [locks_heap EXCEPT ![t] = p.list.heap]
                /\ oob' = (oob \/ p.at >= p.list.max)
       ELSE UNCHANGED <<locks_len, stackVars>>

\* jlrs_mutex_unlock_nogc returns: into jlrs_unlock, which pops the lock stack
\* (assert(ptls->locks.len > 0)) and leaves the signal-deferred region, or
\* into jlrs_unlock_nogc.
ReleaseReturn(t) ==
    /\ EndLocals(t)
    /\ IF mode[t] = "tracked" /\ debug /\ ~(locks_len[t] > 0)
       THEN /\ aborted' = TRUE
            /\ pc' = [u \in Tasks |-> "aborted"]
            /\ UNCHANGED <<locks_len, stackVars, defer_signal>>
       ELSE /\ pc' = [pc EXCEPT ![t] = "idle"]
            /\ locks_len' = IF mode[t] = "tracked"
                            THEN [locks_len EXCEPT ![t] = jlrs_lock_frame_pop(@)]
                            ELSE locks_len
            /\ defer_signal' = IF mode[t] = "tracked"
                               THEN [defer_signal EXCEPT ![t] = JL_SIGATOMIC_END(@)]
                               ELSE defer_signal
            /\ UNCHANGED <<aborted, stackVars>>

\* ---------------------------------------------- jlrs_cc_hacks.c: acquire

\* void jlrs_lock(jl_value_t *v): JL_SIGATOMIC_BEGIN, then
\* jlrs_mutex_wait(self, lock, 1).
jlrs_lock(t) ==
    /\ build = "hacks" /\ pc[t] = "idle" /\ Depth(t) < MaxDepth /\ ~violated
    /\ defer_signal' = [defer_signal EXCEPT ![t] = JL_SIGATOMIC_BEGIN(@)]
    /\ mode' = [mode EXCEPT ![t] = "tracked"]
    /\ pc' = [pc EXCEPT ![t] = "w_load"]
    /\ log' = [log EXCEPT ![t] = NewLog("acquire", t)]
    /\ started' = [started EXCEPT ![t] = TRUE]
    /\ UNCHANGED <<catchVars, tableVars, resultVars, extVars, build, debug, base, owner, count, ol, tmp, held, locks_len, stackVars,
                   aborted, violated, ownerWrite, countWrite>>

\* void jlrs_lock_nogc(jl_value_t *v): jlrs_mutex_wait(self, lock, 0).
jlrs_lock_nogc(t) ==
    /\ build = "hacks" /\ pc[t] = "idle" /\ Depth(t) < MaxDepth /\ ~violated
    /\ mode' = [mode EXCEPT ![t] = "bare"]
    /\ pc' = [pc EXCEPT ![t] = "w_load"]
    /\ log' = [log EXCEPT ![t] = NewLog("acquire", t)]
    /\ started' = [started EXCEPT ![t] = TRUE]
    /\ UNCHANGED <<catchVars, tableVars, resultVars, extVars, build, debug, base, owner, count, ol, tmp, held, locks_len, stackVars,
                   defer_signal, aborted, violated, ownerWrite, countWrite>>

\* owner = jl_atomic_load_relaxed(&lock->owner), and the tests on the value
\* loaded: owner == self, owner == NULL, else into the loop.
mutex_wait_load(t) ==
    /\ pc[t] = "w_load"
    /\ ol' = [ol EXCEPT ![t] = owner]
    /\ pc' = [pc EXCEPT ![t] =
                 IF FastPath(owner, t) THEN "w_inc_r"
                 ELSE IF owner = NULL THEN "w_cas1"
                 ELSE SpinNext(t)]
    /\ UNCHANGED <<catchVars, tableVars, resultVars, extVars, build, debug, base, owner, count, mode, tmp, held, locks_len, stackVars,
                   defer_signal, aborted, violated, started, log, ownerWrite,
                   countWrite>>

\* lock->count++: the read.
mutex_wait_inc_read(t) ==
    /\ pc[t] = "w_inc_r"
    /\ tmp' = [tmp EXCEPT ![t] = count]
    /\ pc' = [pc EXCEPT ![t] = "w_inc_w"]
    /\ UNCHANGED <<catchVars, tableVars, resultVars, extVars, build, debug, base, owner, count, mode, ol, held, locks_len, stackVars,
                   defer_signal, aborted, violated, started, log, ownerWrite,
                   countWrite>>

\* lock->count++: the write, and the return.
mutex_wait_inc_write(t) ==
    /\ pc[t] = "w_inc_w"
    /\ count' = Inc(tmp[t])
    /\ countWrite' = [by |-> t, own |-> owner, val |-> count']
    /\ AcquireReturn(t)
    /\ UNCHANGED <<catchVars, tableVars, resultVars, extVars, build, debug, base, owner, defer_signal, aborted, violated,
                   started, log, ownerWrite>>

\* One jl_atomic_cmpswap(&lock->owner, &owner, self) by t, reached with the
\* local owner == NULL; on failure the local holds the value seen.
CasStep(t, from, okTo, failTo) ==
    LET r == CmpSwap(owner, ol[t], t) IN
    /\ pc[t] = from
    /\ owner' = r.cell
    /\ ol' = [ol EXCEPT ![t] = r.seen]
    /\ log' = [log EXCEPT ![t].slow = TRUE]
    /\ ownerWrite' = IF r.ok
                     THEN [by |-> t, from |-> owner, to |-> r.cell,
                           kind |-> "cmpswap", cnt |-> count]
                     ELSE ownerWrite
    /\ pc' = [pc EXCEPT ![t] = IF r.ok THEN okTo ELSE failTo]

\* if (owner == NULL && jl_atomic_cmpswap(...)) before the loop.
mutex_wait_cas_first(t) ==
    /\ CasStep(t, "w_cas1", "w_set1", SpinNext(t))
    /\ UNCHANGED <<catchVars, tableVars, resultVars, extVars, build, debug, base, count, mode, tmp, held, locks_len, stackVars,
                   defer_signal, aborted, violated, started, countWrite>>

\* if (owner == NULL && jl_atomic_cmpswap(...)) inside while (1).
mutex_wait_cas_loop(t) ==
    /\ CasStep(t, "w_cas", "w_set1", SpinNext(t))
    /\ UNCHANGED <<catchVars, tableVars, resultVars, extVars, build, debug, base, count, mode, tmp, held, locks_len, stackVars,
                   defer_signal, aborted, violated, started, countWrite>>

\* lock->count = 1; return.
mutex_wait_set_count(t) ==
    /\ pc[t] = "w_set1"
    /\ count' = LockedCount
    /\ countWrite' = [by |-> t, own |-> owner, val |-> count']
    /\ AcquireReturn(t)
    /\ UNCHANGED <<catchVars, tableVars, resultVars, extVars, build, debug, base, owner, defer_signal, aborted, violated,
                   started, log, ownerWrite>>

\* if (safepoint) jl_gc_safepoint_(self->ptls).
mutex_wait_safepoint(t) ==
    /\ pc[t] = "w_sp"
    /\ log' = [log EXCEPT ![t].slow = TRUE, ![t].sp = TRUE]
    /\ pc' = [pc EXCEPT ![t] = "w_pause"]
    /\ UNCHANGED <<catchVars, tableVars, resultVars, extVars, build, debug, base, owner, count, mode, ol, tmp, held, locks_len, stackVars,
                   defer_signal, aborted, violated, started, ownerWrite,
                   countWrite>>

\* owner = jl_atomic_load_relaxed(&lock->owner) at the end of the loop body:
\* the local takes the cell's current value, whatever it held before.
ReloadStale(cur, old) == old

Reload(cur, old) == cur

\* jl_cpu_pause() / jl_cpu_suspend(); owner = jl_atomic_load_relaxed(...);
\* and the loop's test of the value loaded.
mutex_wait_pause(t) ==
    /\ pc[t] = "w_pause"
    /\ ol' = [ol EXCEPT ![t] = Reload(owner, ol[t])]
    /\ log' = [log EXCEPT ![t].slow = TRUE]
    /\ pc' = [pc EXCEPT ![t] = IF ol'[t] = NULL THEN "w_cas" ELSE SpinNext(t)]
    /\ UNCHANGED <<catchVars, tableVars, resultVars, extVars, build, debug, base, owner, count, mode, tmp, held, locks_len, stackVars,
                   defer_signal, aborted, violated, started, ownerWrite,
                   countWrite>>

\* ---------------------------------------------- jlrs_cc_hacks.c: release

\* A release entry point called by t: on a lock t holds, or by a task that
\* holds nothing, which breaks the callers' contract ("must be called by
\* current owner only"); the callers make no further call after that one.
ReleaseCall(t, kind) ==
    /\ pc[t] = "idle" /\ ~violated
    /\ \/ held[t][kind] > 0
       \/ Depth(t) = 0
    /\ violated' = (violated \/ Depth(t) = 0)
    /\ held' = IF held[t][kind] > 0
               THEN [held EXCEPT ![t][kind] = @ - 1]
               ELSE held
    /\ mode' = [mode EXCEPT ![t] = kind]
    /\ log' = [log EXCEPT ![t] = NewLog("release", t)]
    /\ started' = [started EXCEPT ![t] = TRUE]

\* void jlrs_unlock(jl_value_t *v): jlrs_mutex_unlock_nogc(lock), then the
\* pop and JL_SIGATOMIC_END.
jlrs_unlock(t) ==
    /\ build = "hacks"
    /\ ReleaseCall(t, "tracked")
    /\ pc' = [pc EXCEPT ![t] = IF debug THEN "u_assert" ELSE "u_dec_r"]
    /\ UNCHANGED <<catchVars, tableVars, resultVars, extVars, build, debug, base, owner, count, ol, tmp, locks_len, stackVars,
                   defer_signal, aborted, ownerWrite, countWrite>>

\* void jlrs_unlock_nogc(jl_value_t *v): jlrs_mutex_unlock_nogc(lock).
jlrs_unlock_nogc(t) ==
    /\ build = "hacks"
    /\ ReleaseCall(t, "bare")
    /\ pc' = [pc EXCEPT ![t] = IF debug THEN "u_assert" ELSE "u_dec_r"]
    /\ UNCHANGED <<catchVars, tableVars, resultVars, extVars, build, debug, base, owner, count, ol, tmp, locks_len, stackVars,
                   defer_signal, aborted, ownerWrite, countWrite>>

\* assert(jl_atomic_load_relaxed(&lock->owner) == jl_current_task).
mutex_unlock_assert(t) ==
    /\ pc[t] = "u_assert"
    /\ IF owner = t
       THEN /\ pc' = [pc EXCEPT ![t] = "u_dec_r"]
            /\ UNCHANGED aborted
       ELSE /\ pc' = [u \in Tasks |-> "aborted"]
            /\ aborted' = TRUE
    /\ UNCHANGED <<catchVars, tableVars, resultVars, extVars, build, debug, base, owner, count, mode, ol, tmp, held, locks_len, stackVars,
                   defer_signal, violated, started, log, ownerWrite,
                   countWrite>>

\* --lock->count: the read.
mutex_unlock_dec_read(t) ==
    /\ pc[t] = "u_dec_r"
    /\ tmp' = [tmp EXCEPT ![t] = count]
    /\ pc' = [pc EXCEPT ![t] = "u_dec_w"]
    /\ UNCHANGED <<catchVars, tableVars, resultVars, extVars, build, debug, base, owner, count, mode, ol, held, locks_len, stackVars,
                   defer_signal, aborted, violated, started, log, ownerWrite,
                   countWrite>>

\* --lock->count: the write, and `== 0`; a nonzero result returns.
mutex_unlock_dec_write(t) ==
    /\ pc[t] = "u_dec_w"
    /\ count' = Dec(tmp[t])
    /\ countWrite' = [by |-> t, own |-> owner, val |-> count']
    /\ IF DecIsZero(count')
       THEN /\ pc' = [pc EXCEPT ![t] = "u_store"]
            /\ UNCHANGED <<mode, ol, tmp, locks_len, stackVars, defer_signal, aborted>>
       ELSE ReleaseReturn(t)
    /\ UNCHANGED <<catchVars, tableVars, resultVars, extVars, build, debug, base, owner, held, violated, started, log,
                   ownerWrite>>

\* jl_atomic_store_release(&lock->owner, (jl_task_t *)NULL).
mutex_unlock_store(t) ==
    /\ pc[t] = "u_store"
    /\ owner' = ReleasedOwner(t)
    /\ ownerWrite' = [by |-> t, from |-> owner, to |-> owner',
                      kind |-> StoreKind, cnt |-> count]
    /\ log' = [log EXCEPT ![t].cleared = TRUE]
    /\ pc' = [pc EXCEPT ![t] = "u_wake"]
    /\ UNCHANGED <<catchVars, tableVars, resultVars, extVars, build, debug, base, count, mode, ol, tmp, held, locks_len, stackVars,
                   defer_signal, aborted, violated, started, countWrite>>

\* jl_cpu_wake(); return.
mutex_unlock_wake(t) ==
    /\ pc[t] = "u_wake"
    /\ log' = [log EXCEPT ![t].woke = TRUE]
    /\ ReleaseReturn(t)
    /\ UNCHANGED <<catchVars, tableVars, resultVars, extVars, build, debug, base, owner, count, held, violated, started,
                   ownerWrite, countWrite>>

\* ------------------------------------------- jlrs_cc.c / jlrs_cc.cc: the lock

\* void jlrs_lock(jl_value_t *v) of jlrs_cc.c: no lock stack, no safepoint.
cc_jlrs_lock(t) ==
    /\ build = "cc" /\ pc[t] = "idle" /\ Depth(t) < MaxDepth /\ ~violated
    /\ mode' = [mode EXCEPT ![t] = "bare"]
    /\ pc' = [pc EXCEPT ![t] = "c_load"]
    /\ log' = [log EXCEPT ![t] = NewLog("acquire", t)]
    /\ started' = [started EXCEPT ![t] = TRUE]
    /\ UNCHANGED <<catchVars, tableVars, resultVars, extVars, build, debug, base, owner, count, ol, tmp, held, locks_len, stackVars,
                   defer_signal, aborted, violated, ownerWrite, countWrite>>

\* owner = jl_atomic_load_relaxed(&lock->owner); owner == self, else the loop.
cc_lock_load(t) ==
    /\ pc[t] = "c_load"
    /\ ol' = [ol EXCEPT ![t] = owner]
    /\ pc' = [pc EXCEPT ![t] =
                 IF FastPath(owner, t) THEN "c_inc_r"
                 ELSE IF owner = NULL THEN "c_cas"
                 ELSE "c_pause"]
    /\ UNCHANGED <<catchVars, tableVars, resultVars, extVars, build, debug, base, owner, count, mode, tmp, held, locks_len, stackVars,
                   defer_signal, aborted, violated, started, log, ownerWrite,
                   countWrite>>

\* lock->count++: the read.
cc_lock_inc_read(t) ==
    /\ pc[t] = "c_inc_r"
    /\ tmp' = [tmp EXCEPT ![t] = count]
    /\ pc' = [pc EXCEPT ![t] = "c_inc_w"]
    /\ UNCHANGED <<catchVars, tableVars, resultVars, extVars, build, debug, base, owner, count, mode, ol, held, locks_len, stackVars,
                   defer_signal, aborted, violated, started, log, ownerWrite,
                   countWrite>>

\* lock->count++: the write, and the return.
cc_lock_inc_write(t) ==
    /\ pc[t] = "c_inc_w"
    /\ count' = Inc(tmp[t])
    /\ countWrite' = [by |-> t, own |-> owner, val |-> count']
    /\ AcquireReturn(t)
    /\ UNCHANGED <<catchVars, tableVars, resultVars, extVars, build, debug, base, owner, defer_signal, aborted, violated,
                   started, log, ownerWrite>>

\* if (owner == NULL && jl_atomic_cmpswap(&lock->owner, &owner, self)).
cc_lock_cas(t) ==
    /\ CasStep(t, "c_cas", "c_set1", "c_pause")
    /\ UNCHANGED <<catchVars, tableVars, resultVars, extVars, build, debug, base, count, mode, tmp, held, locks_len, stackVars,
                   defer_signal, aborted, violated, started, countWrite>>

\* lock->count = 1; return.
cc_lock_set_count(t) ==
    /\ pc[t] = "c_set1"
    /\ count' = LockedCount
    /\ countWrite' = [by |-> t, own |-> owner, val |-> count']
    /\ AcquireReturn(t)
    /\ UNCHANGED <<catchVars, tableVars, resultVars, extVars, build, debug, base, owner, defer_signal, aborted, violated,
                   started, log, ownerWrite>>

\* jl_cpu_pause(); owner = jl_atomic_load_relaxed(&lock->owner).
cc_lock_pause(t) ==
    /\ pc[t] = "c_pause"
    /\ ol' = [ol EXCEPT ![t] = Reload(owner, ol[t])]
    /\ log' = [log EXCEPT ![t].slow = TRUE]
    /\ pc' = [pc EXCEPT ![t] = IF ol'[t] = NULL THEN "c_cas" ELSE "c_pause"]
    /\ UNCHANGED <<catchVars, tableVars, resultVars, extVars, build, debug, base, owner, count, mode, tmp, held, locks_len, stackVars,
                   defer_signal, aborted, violated, started, ownerWrite,
                   countWrite>>

\* void jlrs_unlock(jl_value_t *v) of jlrs_cc.c: no assert on the owner.
cc_jlrs_unlock(t) ==
    /\ build = "cc"
    /\ ReleaseCall(t, "bare")
    /\ pc' = [pc EXCEPT ![t] = "c_dec_r"]
    /\ UNCHANGED <<catchVars, tableVars, resultVars, extVars, build, debug, base, owner, count, ol, tmp, locks_len, stackVars,
                   defer_signal, aborted, ownerWrite, countWrite>>

\* --lock->count: the read.
cc_unlock_dec_read(t) ==
    /\ pc[t] = "c_dec_r"
    /\ tmp' = [tmp EXCEPT ![t] = count]
    /\ pc' = [pc EXCEPT ![t] = "c_dec_w"]
    /\ UNCHANGED <<catchVars, tableVars, resultVars, extVars, build, debug, base, owner, count, mode, ol, held, locks_len, stackVars,
                   defer_signal, aborted, violated, started, log, ownerWrite,
                   countWrite>>

\* --lock->count: the write, and `== 0`; a nonzero result returns.
cc_unlock_dec_write(t) ==
    /\ pc[t] = "c_dec_w"
    /\ count' = Dec(tmp[t])
    /\ countWrite' = [by |-> t, own |-> owner, val |-> count']
    /\ IF DecIsZero(count')
       THEN /\ pc' = [pc EXCEPT ![t] = "c_store"]
            /\ UNCHANGED <<mode, ol, tmp>>
       ELSE /\ pc' = [pc EXCEPT ![t] = "idle"]
            /\ EndLocals(t)
    /\ UNCHANGED <<catchVars, tableVars, resultVars, extVars, build, debug, base, owner, held, locks_len, stackVars, defer_signal, aborted,
                   violated, started, log, ownerWrite>>

\* jl_atomic_store_release(&lock->owner, (jl_task_t *)NULL).
cc_unlock_store(t) ==
    /\ pc[t] = "c_store"
    /\ owner' = ReleasedOwner(t)
    /\ ownerWrite' = [by |-> t, from |-> owner, to |-> owner',
                      kind |-> StoreKind, cnt |-> count]
    /\ log' = [log EXCEPT ![t].cleared = TRUE]
    /\ pc' = [pc EXCEPT ![t] = "c_wake"]
    /\ UNCHANGED <<catchVars, tableVars, resultVars, extVars, build, debug, base, count, mode, ol, tmp, held, locks_len, stackVars,
                   defer_signal, aborted, violated, started, countWrite>>

\* jl_cpu_wake(); return.
cc_unlock_wake(t) ==
    /\ pc[t] = "c_wake"
    /\ log' = [log EXCEPT ![t].woke = TRUE]
    /\ pc' = [pc EXCEPT ![t] = "idle"]
    /\ EndLocals(t)
    /\ UNCHANGED <<catchVars, tableVars, resultVars, extVars, build, debug, base, owner, count, held, locks_len, stackVars, defer_signal,
                   aborted, violated, started, ownerWrite, countWrite>>

\* ------------------------------------------------------------ the lock spec

Next ==
    \E t \in Tasks :
        \/ jlrs_lock(t)
        \/ jlrs_lock_nogc(t)
        \/ mutex_wait_load(t)
        \/ mutex_wait_inc_read(t)
        \/ mutex_wait_inc_write(t)
        \/ mutex_wait_cas_first(t)
        \/ mutex_wait_cas_loop(t)
        \/ mutex_wait_set_count(t)
        \/ mutex_wait_safepoint(t)
        \/ mutex_wait_pause(t)
        \/ jlrs_unlock(t)
        \/ jlrs_unlock_nogc(t)
        \/ mutex_unlock_assert(t)
        \/ mutex_unlock_dec_read(t)
        \/ mutex_unlock_dec_write(t)
        \/ mutex_unlock_store(t)
        \/ mutex_unlock_wake(t)
        \/ cc_jlrs_lock(t)
        \/ cc_lock_load(t)
        \/ cc_lock_inc_read(t)
        \/ cc_lock_inc_write(t)
        \/ cc_lock_cas(t)
        \/ cc_lock_set_count(t)
        \/ cc_lock_pause(t)
        \/ cc_jlrs_unlock(t)
        \/ cc_unlock_dec_read(t)
        \/ cc_unlock_dec_write(t)
        \/ cc_unlock_store(t)
        \/ cc_unlock_wake(t)

Spec == Init /\ [][Next]_vars

StackSpec == StackInit /\ [][Next]_vars

\* A step of t inside a call of acquire or release: the thread running t
\* keeps executing, whatever the other threads do.
InCall(t) ==
    /\ pc[t] # "idle"
    /\ \/ mutex_wait_load(t)
       \/ mutex_wait_inc_read(t)
       \/ mutex_wait_inc_write(t)
       \/ mutex_wait_cas_first(t)
       \/ mutex_wait_cas_loop(t)
       \/ mutex_wait_set_count(t)
       \/ mutex_wait_safepoint(t)
       \/ mutex_wait_pause(t)
       \/ mutex_unlock_assert(t)
       \/ mutex_unlock_dec_read(t)
       \/ mutex_unlock_dec_write(t)
       \/ mutex_unlock_store(t)
       \/ mutex_unlock_wake(t)
       \/ cc_lock_load(t)
       \/ cc_lock_inc_read(t)
       \/ cc_lock_inc_write(t)
       \/ cc_lock_cas(t)
       \/ cc_lock_set_count(t)
       \/ cc_lock_pause(t)
       \/ cc_unlock_dec_read(t)
       \/ cc_unlock_dec_write(t)
       \/ cc_unlock_store(t)
       \/ cc_unlock_wake(t)

\* Spec with every thread running: a task inside a call takes its next step
\* eventually.  Callers need not call again.
FairSpec == Init /\ [][Next]_vars /\ \A t \in Tasks : WF_vars(InCall(t))

\* Init with the build fixed: jlrs_cc_hacks.c, assertions compiled in.
HacksInit == Init /\ build = "hacks" /\ debug

\* The lock of jlrs_cc_hacks.c with callers that keep the contract: a
\* release is called only by a task with an acquire outstanding.
ProgressNext ==
    \E t \in Tasks :
        \/ jlrs_lock(t)
        \/ jlrs_lock_nogc(t)
        \/ Depth(t) > 0 /\ jlrs_unlock(t)
        \/ Depth(t) > 0 /\ jlrs_unlock_nogc(t)
        \/ mutex_wait_load(t)
        \/ mutex_wait_inc_read(t)
        \/ mutex_wait_inc_write(t)
        \/ mutex_wait_cas_first(t)
        \/ mutex_wait_cas_loop(t)
        \/ mutex_wait_set_count(t)
        \/ mutex_wait_safepoint(t)
        \/ mutex_wait_pause(t)
        \/ mutex_unlock_assert(t)
        \/ mutex_unlock_dec_read(t)
        \/ mutex_unlock_dec_write(t)
        \/ mutex_unlock_store(t)
        \/ mutex_unlock_wake(t)

\* ProgressNext with every thread running.
ProgressSpec ==
    HacksInit /\ [][ProgressNext]_vars /\ \A t \in Tasks : WF_vars(InCall(t))

\* ---------------------------------------------------------- the lock claims

\* The callers' contract holds so far: every release was called by a task
\* with an acquire outstanding.
ContractKept == ~violated

\* The contract holds, or the build enforces it (the assert of
\* jlrs_mutex_unlock_nogc, compiled in).
ContractEnforced == ~violated \/ (build = "hacks" /\ debug)

\* t is between a completed acquire and its matching release.
Holds(t) == Depth(t) > 0

\* t is inside acquire, past the first load, without the lock.
Spinning(t) == pc[t] \in {"w_sp", "w_pause", "w_cas", "c_pause", "c_cas"}

\* No task is inside acquire or release.
Quiescent == \A t \in Tasks : pc[t] = "idle"

\* C1: mutual exclusion.  While every task releases only what it acquired, no
\* two distinct tasks are both between a completed acquire and its matching
\* release, in any interleaving of the memory accesses of acquire and release.
C1_MutualExclusion ==
    ContractKept =>
        \A t1, t2 \in Tasks : (t1 # t2) => ~(Holds(t1) /\ Holds(t2))

\* One task holds the cell, which it took by compare-and-swap, while another
\* is inside acquire and spins on it.
C1_Witness ==
    \E t1, t2 \in Tasks :
        /\ t1 # t2 /\ Holds(t1) /\ Spinning(t2) /\ ContractKept
        /\ ownerWrite.kind = "cmpswap" /\ log[t2].slow

\* C2 as stated: in every reachable state, the states between the memory
\* accesses of acquire and release included, count > 0 iff owner is set.
C2_CountIffOwner_Original ==
    ContractKept => ((count # 0) <=> (owner # NULL))

\* C2 amended: count > 0 implies owner is set in every state; owner is set
\* with count = 0 only while the owner is inside acquire between its
\* compare-and-swap and `count = 1`, or inside release between the decrement
\* to zero and the store that clears owner; so count > 0 iff owner is set
\* whenever no task is inside acquire or release.
C2_CountIffOwner ==
    ContractKept =>
        /\ (count # 0) => (owner # NULL)
        /\ (owner # NULL /\ count = 0) =>
               pc[owner] \in {"w_set1", "c_set1", "u_store", "c_store"}
        /\ Quiescent => ((count > 0) <=> (owner # NULL))

\* The cell is held at an operation boundary, and it is held re-entrantly.
C2_Witness ==
    /\ Quiescent /\ ContractKept /\ owner # NULL /\ count = 2
    /\ \E t \in Tasks : t # owner /\ log[t].op = "release"

\* C3: after any sequence of acquire / release calls issued by a single task
\* (no other task has called anything), count is the number of acquires minus
\* the number of releases, and owner is set iff count > 0.
C3_SingleTaskNet ==
    \A t \in Tasks :
        (/\ ContractKept
         /\ pc[t] = "idle"
         /\ \A u \in Tasks \ {t} : ~started[u])
        => /\ count = Depth(t)
           /\ (owner # NULL) <=> (count > 0)
           /\ owner \in {NULL, t}

\* A single task has acquired twice and released once.
C3_Witness ==
    \E t \in Tasks :
        /\ \A u \in Tasks \ {t} : ~started[u]
        /\ pc[t] = "idle" /\ log[t].op = "release" /\ Depth(t) = 1
        /\ count = 1 /\ owner = t

\* C4: whenever acquire (tracked or bare) has returned to t, the owner is t
\* and count >= 1; it never returns while another task is the owner.
C4_AcquireReturnsOwned ==
    \A t \in Tasks :
        (ContractKept /\ pc[t] = "idle" /\ log[t].op = "acquire")
        => (owner = t /\ count >= 1)

\* A tracked acquire that took the cell by compare-and-swap has returned to
\* its caller, and another task is now spinning on the cell.
C4_Witness ==
    \E t, u \in Tasks :
        /\ t # u /\ pc[t] = "idle" /\ log[t].op = "acquire" /\ log[t].slow
        /\ held[t].tracked > 0 /\ ~log[t].mine /\ Spinning(u)

\* C5: a re-entrant acquire never blocks.  An acquire by t on a cell t owns
\* stays on the path load, count++, return: it executes no compare-and-swap,
\* no spin iteration and no safepoint check, whatever the other tasks do, and
\* when it has returned count is one more than at the call.
C5_ReentrantNeverBlocks ==
    \A t \in Tasks :
        (ContractKept /\ log[t].op = "acquire" /\ log[t].mine)
        => /\ ~log[t].slow
           /\ pc[t] \in {"w_load", "w_inc_r", "w_inc_w",
                         "c_load", "c_inc_r", "c_inc_w", "idle"}
           /\ owner = t
           /\ (pc[t] = "idle") => (count = log[t].cnt0 + 1)

\* A re-entrant acquire has returned while another task is spinning on the
\* cell.
C5_Witness ==
    \E t, u \in Tasks :
        /\ t # u /\ log[t].op = "acquire" /\ log[t].mine /\ pc[t] = "idle"
        /\ count = 2 /\ Spinning(u) /\ log[u].slow

\* C6: ownership integrity.  Every write to owner is unset -> t by the
\* compare-and-swap of t's acquire, or t -> unset by the atomic store of a
\* release executed by t; owner is what the last such write stored.
C6_OwnershipIntegrity ==
    ContractEnforced =>
        /\ owner = ownerWrite.to
        /\ \/ ownerWrite.kind = "none"
           \/ /\ ownerWrite.kind = "cmpswap"
              /\ ownerWrite.by \in Tasks
              /\ ownerWrite.from = NULL
              /\ ownerWrite.to = ownerWrite.by
           \/ /\ ownerWrite.kind = "atomic_store_release"
              /\ ownerWrite.by \in Tasks
              /\ ownerWrite.from = ownerWrite.by
              /\ ownerWrite.to = NULL

\* The owner was cleared by a release while another task was spinning.
C6_Witness ==
    /\ ownerWrite.kind = "atomic_store_release"
    /\ \E u \in Tasks : u # ownerWrite.by /\ Spinning(u)

\* C7: every write to count (the increment on re-entry, the store of 1 after
\* the compare-and-swap, the decrement in release) is executed by the task
\* that is the cell's owner at the moment of the write.
C7_OnlyOwnerWritesCount ==
    ContractEnforced =>
        (countWrite.by # NULL => countWrite.own = countWrite.by)

\* The owner incremented count on re-entry while another task was spinning.
C7_Witness ==
    /\ countWrite.by \in Tasks /\ countWrite.val = 2
    /\ \E u \in Tasks : u # countWrite.by /\ Spinning(u)

\* C8: a release by the owner decrements count by one; when the result is
\* zero it clears owner (the cell is Unlocked: owner unset, count 0) and
\* wakes the waiters, and when it is nonzero it leaves owner alone and the
\* cell stays held by the same task.
C8_ReleaseDecrements ==
    ContractKept =>
        /\ \A t \in Tasks :
              (pc[t] = "idle" /\ log[t].op = "release" /\ log[t].mine) =>
                  /\ log[t].cnt0 = 1 =>
                        (log[t].cleared /\ log[t].woke /\ owner # t)
                  /\ log[t].cnt0 > 1 =>
                        /\ ~log[t].cleared /\ ~log[t].woke
                        /\ owner = t /\ count = log[t].cnt0 - 1
        /\ \A t \in Tasks :
              (pc[t] \in {"u_store", "c_store"}) =>
                  (owner = t /\ count = 0 /\ log[t].cnt0 = 1)
        /\ (ownerWrite.kind = "atomic_store_release") =>
               (ownerWrite.to = NULL /\ ownerWrite.cnt = 0)

\* One task has released the cell fully; another, which took it after that,
\* has released once re-entrantly and still holds it.
C8_Witness ==
    \E t, u \in Tasks :
        /\ t # u
        /\ pc[t] = "idle" /\ log[t].op = "release" /\ log[t].cnt0 = 1
        /\ pc[u] = "idle" /\ log[u].op = "release" /\ log[u].cnt0 = 2

\* C9: in a debug build a release by a task that is not the owner (an
\* Unlocked cell included) is stopped by an assertion before count or owner is
\* modified, in every release entry point of every build.
C9_ForeignReleaseAsserted ==
    debug =>
        \A t \in Tasks :
            (log[t].op = "release" /\ ~log[t].mine) =>
                pc[t] \in {"u_assert", "u_dec_r", "u_dec_w",
                           "c_dec_r", "c_dec_w", "aborted"}

\* ---------------------------------------------- the catch trampoline: steps

\* #ifndef JLRS_WINDOWS_LTS: the build has the JL_TRY / JL_CATCH region.
CapturesAlways == TRUE
Captures == ~lts

\* JL_TRY: __excstack_state = jl_excstack_state(); jl_enter_handler(&__eh).
\* With JLRS_WINDOWS_LTS there is no JL_TRY.
EnterTry ==
    /\ saved' = Len(excstack)
    /\ eh' = IF Captures THEN eh + 1 ELSE eh

\* The caller calls the trampoline with a callback and output storage.
CatchCall(initial) ==
    /\ tpc = "idle" /\ calls < MaxCalls
    /\ calls' = calls + 1
    /\ cb' \in Callbacks
    /\ res' \in initial
    /\ buf0' = buf
    /\ ncb' = 0
    /\ EnterTry
    /\ tpc' = "try"
    /\ UNCHANGED <<lockVars, tableVars, resultVars, extVars, variant, lts, buf, excstack, ret>>

\* jlrs_catch_t jlrs_try_catch(callback, trampoline, result):
\* jlrs_catch_t res = {JLRS_CATCH_OK, 0}.
jlrs_try_catch ==
    /\ variant = "try_catch"
    /\ CatchCall({[tag |-> JLRS_CATCH_OK, error |-> NULL]})

\* jlrs_catch_wrapper of jlrs_cc.c:
\* jlrs_catch_t res = {.tag = JLRS_CATCH_OK, .error = NULL}.
jlrs_catch_wrapper_c ==
    /\ variant = "wrapper_c"
    /\ CatchCall({[tag |-> JLRS_CATCH_OK, error |-> NULL]})

\* jlrs_catch_wrapper of jlrs_cc.cc: jlrs_catch_t res, uninitialised.
jlrs_catch_wrapper_cc ==
    /\ variant = "wrapper_cc"
    /\ CatchCall(CatchT)

\* res = trampoline(callback, result): what is assigned from the callback's
\* return value.
AssignResNoPayload(r) == [tag |-> r.tag, error |-> NULL]
AssignRes(r) == r

\* The callback runs: it writes through `result`, then returns, or the
\* runtime throws (jl_throw pushes the exception and jumps to the innermost
\* handler; without one the process ends).
callback_runs ==
    /\ tpc = "try"
    /\ ncb' = ncb + 1
    /\ buf' = IF cb.writes THEN cb.value ELSE buf
    /\ IF cb.throws
       THEN /\ excstack' = Append(excstack, cb.exc)
            /\ tpc' = IF Captures THEN "catch" ELSE "fatal"
            /\ UNCHANGED res
       ELSE /\ res' = AssignRes(cb.r)
            /\ tpc' = "after"
            /\ UNCHANGED excstack
    /\ UNCHANGED <<lockVars, tableVars, resultVars, extVars, variant, lts, cb, buf0, eh, saved, ret, calls>>

\* The try block ends (jl_eh_restore_state pops the handler); return res.
try_returns ==
    /\ tpc = "after"
    /\ eh' = IF Captures THEN eh - 1 ELSE eh
    /\ ret' = res
    /\ tpc' = "idle"
    /\ UNCHANGED <<lockVars, tableVars, resultVars, extVars, variant, lts, cb, res, buf, buf0, excstack, saved,
                   ncb, calls>>

\* jl_current_exception(): the top of the exception stack.
jl_exception_occurred == NULL
jl_current_exception == excstack[Len(excstack)]

\* res.tag = JLRS_CATCH_EXCEPTION; res.error = exc.
SetCaughtNoTag(r, exc) == [r EXCEPT !.error = exc]
SetCaught(r, exc) == [r EXCEPT !.tag = JLRS_CATCH_EXCEPTION, !.error = exc]

\* Where control goes when the JL_CATCH block is done: back to the caller.
AfterCatchRetry == "try"
AfterCatch == "idle"

\* jl_restore_excstack(state): pop down to the saved height.
jl_restore_excstack(state) == SubSeq(excstack, 1, state)

\* JL_CATCH of jlrs_try_catch: jl_eh_restore_state(&__eh); the block returns
\* {JLRS_CATCH_EXCEPTION, exc} from inside the JL_CATCH loop, so the loop's
\* jl_restore_excstack(__excstack_state) is not reached.
try_catch_handler ==
    /\ tpc = "catch" /\ variant = "try_catch"
    /\ eh' = eh - 1
    /\ ret' = [tag |-> JLRS_CATCH_EXCEPTION, error |-> jl_current_exception]
    /\ tpc' = AfterCatch
    /\ UNCHANGED <<lockVars, tableVars, resultVars, extVars, variant, lts, cb, res, buf, buf0, excstack, saved,
                   ncb, calls>>

\* JL_CATCH of jlrs_catch_wrapper (jlrs_cc.c): res.tag, res.error are set,
\* the block ends, jl_restore_excstack(__excstack_state) runs; return res.
wrapper_c_handler ==
    /\ tpc = "catch" /\ variant = "wrapper_c"
    /\ eh' = eh - 1
    /\ res' = SetCaught(res, jl_current_exception)
    /\ excstack' = jl_restore_excstack(saved)
    /\ ret' = res'
    /\ tpc' = AfterCatch
    /\ UNCHANGED <<lockVars, tableVars, resultVars, extVars, variant, lts, cb, buf, buf0, saved, ncb, calls>>

\* JL_CATCH of jlrs_catch_wrapper (jlrs_cc.cc): res = {.tag, .error}, the
\* block ends, jl_restore_excstack(__excstack_state) runs; return res.
wrapper_cc_handler ==
    /\ tpc = "catch" /\ variant = "wrapper_cc"
    /\ eh' = eh - 1
    /\ res' = [tag |-> JLRS_CATCH_EXCEPTION, error |-> jl_current_exception]
    /\ excstack' = jl_restore_excstack(saved)
    /\ ret' = res'
    /\ tpc' = AfterCatch
    /\ UNCHANGED <<lockVars, tableVars, resultVars, extVars, variant, lts, cb, buf, buf0, saved, ncb, calls>>

CatchInit ==
    /\ build = "hacks" /\ debug = TRUE /\ base = 0
    /\ LockStart
    /\ variant \in {"try_catch", "wrapper_c", "wrapper_cc"}
    /\ lts \in BOOLEAN
    /\ CatchStart
    /\ TableFixed
    /\ ResultStart
    /\ ExtStart

CatchNext ==
    \/ jlrs_try_catch
    \/ jlrs_catch_wrapper_c
    \/ jlrs_catch_wrapper_cc
    \/ callback_runs
    \/ try_returns
    \/ try_catch_handler
    \/ wrapper_c_handler
    \/ wrapper_cc_handler

CatchSpec == CatchInit /\ [][CatchNext]_vars

\* ---------------------------------------------------- the trampoline claims

\* C10: trampoline round trip.  When the callback returns (the runtime raises
\* nothing), the trampoline returns exactly the jlrs_catch_t the callback
\* returned, tag and payload, and the output storage holds what the callback
\* left there: the value it wrote, or what the call found.
C10_RoundTrip ==
    (tpc = "idle" /\ calls > 0 /\ ~cb.throws) =>
        /\ ret = cb.r
        /\ buf = IF cb.writes THEN cb.value ELSE buf0

\* A callback wrote a value over an earlier one and returned a Panic tag with
\* a payload, and the call has returned.
C10_Witness ==
    /\ tpc = "idle" /\ calls = 2 /\ ~cb.throws /\ ~lts
    /\ cb.writes /\ cb.value = 2 /\ buf0 = 1 /\ buf = 2
    /\ cb.r = [tag |-> JLRS_CATCH_PANIC, error |-> 2]
    /\ ret = cb.r

\* C11: trampoline exception path.  In a build with capture, when the runtime
\* raises during the callback the trampoline returns the tag
\* JLRS_CATCH_EXCEPTION with the runtime's current exception (the one just
\* raised) as payload, which is not null; the exception does not escape: the
\* call returns to its caller with the handler popped.
C11_ExceptionPath ==
    /\ (tpc = "idle" /\ calls > 0 /\ cb.throws /\ Captures) =>
           /\ ret.tag = JLRS_CATCH_EXCEPTION
           /\ ret.error = cb.exc
           /\ ret.error # NULL
           /\ eh = 0
    /\ (tpc = "fatal") => ~Captures

\* A second call raised an exception other than the one the first call
\* raised, and returned it.
C11_Witness ==
    /\ tpc = "idle" /\ calls = 2 /\ cb.throws /\ Captures
    /\ variant = "try_catch" /\ Len(excstack) = 2
    /\ excstack[1] # cb.exc
    /\ ret = [tag |-> JLRS_CATCH_EXCEPTION, error |-> cb.exc]

\* C12: the runtime's exception state is cleared on every exit path of the
\* trampoline, the normal return and the captured exception alike: whenever
\* the trampoline has returned the task's exception stack is empty, and a
\* call finds no exception left by an earlier call.
C12_ExceptionStateCleared ==
    /\ (tpc = "idle") => excstack = <<>>
    /\ (tpc = "try") => saved = 0

\* A capture result with one of the three tags whose payload is null unless
\* the tag is JLRS_CATCH_EXCEPTION.
TagPayloadRule(r) ==
    /\ r.tag \in Tags
    /\ r.error # NULL => r.tag = JLRS_CATCH_EXCEPTION

\* C13 as stated: every result the trampoline returns has exactly one of the
\* tags Ok / RuntimeException / Panic and a null payload unless the tag is
\* RuntimeException.
C13_TagPayload_Original ==
    (tpc = "idle" /\ calls > 0) => TagPayloadRule(ret)

\* C13: every result the trampoline returns has one of the three tags; it
\* is either the callback's own result, returned unchanged, or the result
\* the trampoline builds for a captured exception, so its payload is null
\* unless the tag is RuntimeException or the callback itself returned that
\* payload.
C13_TagPayload ==
    (tpc = "idle" /\ calls > 0) =>
        /\ ret.tag \in Tags
        /\ (cb.throws \/ TagPayloadRule(cb.r)) => TagPayloadRule(ret)
        /\ ~TagPayloadRule(ret) => (~cb.throws /\ ret = cb.r)

\* The C wrapper captured an exception in its second call and returned it
\* with the exception stack restored.
C13_Witness ==
    /\ tpc = "idle" /\ calls = 2 /\ variant = "wrapper_c" /\ Captures
    /\ cb.throws /\ cb.exc = 2
    /\ ret = [tag |-> JLRS_CATCH_EXCEPTION, error |-> 2]
    /\ excstack = <<>>

\* What holds of a state of the build with JLRS_WINDOWS_LTS: no handler is
\* entered, the callback has run once when the call is past it, the result
\* returned is the callback's, and an exception raised in the callback is
\* not captured: the call never returns.
LegacyDirectCall ==
    /\ eh = 0
    /\ tpc # "catch"
    /\ (tpc = "try") => ncb = 0
    /\ (tpc \in {"after", "fatal"}) => ncb = 1
    /\ (tpc = "after") => (~cb.throws /\ res = cb.r)
    /\ (tpc = "idle" /\ calls > 0) =>
           /\ ncb = 1 /\ ~cb.throws /\ ret = cb.r
           /\ ret.tag = JLRS_CATCH_EXCEPTION =>
                  cb.r.tag = JLRS_CATCH_EXCEPTION
    /\ (ncb = 1 /\ cb.throws) => tpc = "fatal"

\* C14: with JLRS_WINDOWS_LTS the trampoline is a direct call: it invokes
\* the callback once, returns exactly the callback's result, never produces
\* the RuntimeException tag by itself, and does not capture an exception
\* raised during the call (the process ends); the mode is fixed by the build
\* and never changes between calls.
C14_LegacyMode ==
    /\ [](lts => LegacyDirectCall)
    /\ [][lts' = lts]_vars

\* In the legacy build a first call returned the callback's own
\* RuntimeException-tagged result, and a second call's callback raised.
C14_Witness ==
    /\ lts /\ tpc = "fatal" /\ calls = 2 /\ ncb = 1 /\ cb.throws
    /\ ret = [tag |-> JLRS_CATCH_EXCEPTION, error |-> 1]
    /\ excstack = <<cb.exc>>

\* C15: the trampoline invokes the callback exactly once per call and never
\* retries: the callback has run at most once at any point of a call and
\* exactly once when the call has returned, and after a captured exception
\* the caller receives the RuntimeException result.
C15_ExactlyOnce ==
    /\ ncb <= 1
    /\ (tpc \in {"after", "catch", "fatal"}) => ncb = 1
    /\ (tpc = "idle" /\ calls > 0) =>
           /\ ncb = 1
           /\ cb.throws =>
                  ret = [tag |-> JLRS_CATCH_EXCEPTION, error |-> cb.exc]

\* The C++ wrapper's second call captured an exception after one run of its
\* callback and returned it.
C15_Witness ==
    /\ tpc = "idle" /\ calls = 2 /\ ncb = 1 /\ cb.throws
    /\ variant = "wrapper_cc" /\ cb.exc = 1
    /\ ret = [tag |-> JLRS_CATCH_EXCEPTION, error |-> 1]

\* C16: tracked and bare variants.  Each completed jlrs_lock pushes the cell
\* on the calling thread's lock stack and each jlrs_unlock pops one entry, so
\* between calls the length of a thread's lock stack is what it started
\* with plus the number of its tracked acquires not yet released; the bare
\* variants leave the lock stack alone and never perform a safepoint check.
C16_TrackedVsBare ==
    ContractKept =>
        \A t \in Tasks :
            /\ (pc[t] = "idle") => locks_len[t] = Base(t) + held[t].tracked
            /\ (pc[t] = "w_sp") => mode[t] = "tracked"
            /\ (pc[t] # "idle" /\ log[t].sp) => mode[t] = "tracked"

\* t is in the spin loop of the tracked acquire.
TrackedSpinning(t) ==
    mode[t] = "tracked" /\ pc[t] \in {"w_sp", "w_pause", "w_cas"}

\* C17: safepoint-aware spinning.  A task in the spin loop of the tracked
\* acquire checks for a safepoint in every iteration that fails to take the
\* lock: it never pauses without having done the check, and, with its
\* thread running, as long as it spins it comes to the safepoint check again
\* and again, also when the lock is never released.
C17_SafepointSpinning ==
    /\ [](\A t \in Tasks :
             (TrackedSpinning(t) /\ pc[t] = "w_pause") => log[t].sp)
    /\ \A t \in Tasks :
           []<>(~(TrackedSpinning(t) /\ pc[t] # "w_sp"))

\* A task in the tracked acquire is at the safepoint check for at least the
\* second time while another task holds the cell.
C17_Witness ==
    \E t, u \in Tasks :
        /\ t # u /\ owner = u /\ Holds(u) /\ pc[u] = "idle"
        /\ mode[t] = "tracked" /\ pc[t] = "w_sp" /\ log[t].sp

\* ------------------------------- jlrs_cc/: the build, the function table

\* The minor versions of the runtime the model builds against.
Versions == 10..12

\* #if JLRS_EXPECTED_MINOR_VERSION != JULIA_VERSION_MINOR / #error: whether
\* the preprocessor lets the header through.
VersionCheckOff(sel, det) == TRUE
VersionCheck(sel, det) == sel = det

\* The translation units of jlrs_cc/, and those that include jlrs_cc.h.
Units ==
    {"jlrs_cc_ext.c", "jlrs_cc_hacks.c", "jlrs_cc_reexport.c",
     "jlrs_cc_fast_tls.c"}

IncludesHeader(tu) == tu # "jlrs_cc_fast_tls.c"

Compiles(tu) == IncludesHeader(tu) => VersionCheck(selected, minor)

\* The library is built: every translation unit has to compile.
build_library ==
    /\ tstate = "source"
    /\ tstate' = IF \A tu \in Units : Compiles(tu)
                 THEN "built" ELSE "build_error"
    /\ UNCHANGED <<lockVars, catchVars, resultVars, extVars, selected, minor, avail, func, inited,
                   last>>

\* jl_dlsym(handle, name, &ptr, 0): the address of the symbol, or null.
jl_dlsym(sym) == IF sym \in avail THEN sym ELSE FnNull

\* The symbols this version of the file resolves.
Needed == {sym \in SymSet : minor >= Since(sym)}

\* The first symbol, in the order of the calls, that is needed and missing
\* (Len(Syms) + 1 when there is none).
RECURSIVE FirstMissing(_)
FirstMissing(i) ==
    IF i > Len(Syms) THEN i
    ELSE IF Syms[i] \in Needed /\ Syms[i] \notin avail THEN i
    ELSE FirstMissing(i + 1)

\* void jlrs_init_missing_functions(void): one jl_dlsym per symbol, each
\* followed by assert(found_...).
jlrs_init_missing_functions ==
    LET stop == IF debug THEN FirstMissing(1) ELSE Len(Syms) + 1 IN
    /\ tstate = "built"
    /\ func' = [sym \in SymSet |->
                  IF sym \in Needed
                     /\ \E i \in 1..Len(Syms) : Syms[i] = sym /\ i <= stop
                  THEN jl_dlsym(sym) ELSE func[sym]]
    /\ IF stop <= Len(Syms)
       THEN tstate' = "aborted" /\ UNCHANGED inited
       ELSE inited' = TRUE /\ UNCHANGED tstate
    /\ UNCHANGED <<lockVars, catchVars, resultVars, extVars, selected, minor, avail, last>>

\* assert(jl_..._func && "... not loaded"): the condition.
LoadedUnchecked(f) == TRUE
Loaded(f) == f # FnNull

\* An entry point that forwards to a resolved function: the assert, then
\* the call through the pointer.
Forward(entry, sym) ==
    /\ tstate = "built" /\ minor >= Since(sym)
    /\ IF debug /\ ~Loaded(func[sym])
       THEN /\ tstate' = "aborted"
            /\ last' = [entry |-> entry, outcome |-> "assert",
                        target |-> FnNull]
       ELSE IF func[sym] = FnNull
       THEN /\ tstate' = "ub"
            /\ last' = [entry |-> entry, outcome |-> "null_call",
                        target |-> FnNull]
       ELSE /\ last' = [entry |-> entry, outcome |-> "forwarded",
                        target |-> func[sym]]
            /\ UNCHANGED tstate
    /\ UNCHANGED <<lockVars, catchVars, resultVars, extVars, selected, minor, avail, func, inited>>

jlrs_lock_value == Forward("jlrs_lock_value", "jl_lock_value")

jlrs_unlock_value == Forward("jlrs_unlock_value", "jl_unlock_value")

jlrs_memoryrefindex == Forward("jlrs_memoryrefindex", "jl_memoryrefindex")

jlrs_memoryrefset == Forward("jlrs_memoryrefset", "jl_memoryrefset")

jlrs_genericmemory_typetagdata ==
    Forward("jlrs_genericmemory_typetagdata", "jl_genericmemory_typetagdata")

jlrs_declare_constant_val ==
    Forward("jlrs_declare_constant_val", "jl_declare_constant_val")

\* Every build configuration: the selected and the detected version, with
\* or without assertions, and what libjulia-internal exports.
TableInit ==
    /\ build = "hacks" /\ debug \in BOOLEAN /\ base = 0
    /\ LockStart
    /\ variant = "try_catch" /\ lts = FALSE
    /\ CatchStart
    /\ selected \in {0} \cup Versions
    /\ minor \in Versions
    /\ avail \in SUBSET SymSet
    /\ TableStart
    /\ ResultStart
    /\ ExtStart

TableNext ==
    \/ build_library
    \/ jlrs_init_missing_functions
    \/ jlrs_lock_value
    \/ jlrs_unlock_value
    \/ jlrs_memoryrefindex
    \/ jlrs_memoryrefset
    \/ jlrs_genericmemory_typetagdata
    \/ jlrs_declare_constant_val

TableSpec == TableInit /\ [][TableNext]_vars

\* The function a lazily resolved entry point stands for.
TargetOf ==
    [jlrs_lock_value |-> "jl_lock_value",
     jlrs_unlock_value |-> "jl_unlock_value",
     jlrs_memoryrefindex |-> "jl_memoryrefindex",
     jlrs_memoryrefset |-> "jl_memoryrefset",
     jlrs_genericmemory_typetagdata |-> "jl_genericmemory_typetagdata",
     jlrs_declare_constant_val |-> "jl_declare_constant_val"]

\* jlrs_init_missing_functions has returned and found every symbol.
InitSucceeded == inited /\ Needed \subseteq avail

\* C18 as stated: a lazily resolved entry point called before
\* jlrs_init_missing_functions has run fails an assertion and never calls
\* through an unset pointer; after a successful initialization every call
\* is forwarded to the resolved function.
C18_FunctionTable_Original ==
    /\ tstate # "ub"
    /\ (last.entry # "none" /\ ~inited) =>
           (last.outcome = "assert" /\ tstate = "aborted")
    /\ (last.entry # "none" /\ InitSucceeded) =>
           (last.outcome = "forwarded" /\ last.target = TargetOf[last.entry])

\* C18: in a build with assertions compiled in, a lazily resolved entry
\* point called before jlrs_init_missing_functions has run fails an
\* assertion and never calls through an unset pointer; in any build, after
\* a successful initialization every call is forwarded to the resolved
\* function, and a call is forwarded only through a pointer that was set.
C18_FunctionTable ==
    /\ debug => tstate # "ub"
    /\ (debug /\ last.entry # "none" /\ ~inited) =>
           (last.outcome = "assert" /\ tstate = "aborted")
    /\ (last.entry # "none" /\ InitSucceeded) =>
           /\ last.outcome = "forwarded"
           /\ last.target = TargetOf[last.entry]
           /\ tstate = "built"
    /\ (last.outcome = "forwarded") =>
           (inited /\ last.target = TargetOf[last.entry])

\* With assertions on, an entry point of version 12 was called before the
\* initialization and the assertion stopped it.
C18_Witness ==
    /\ debug /\ ~inited /\ tstate = "aborted" /\ minor = 12
    /\ last = [entry |-> "jlrs_declare_constant_val", outcome |-> "assert",
               target |-> FnNull]

\* C19: a mismatch between JLRS_EXPECTED_MINOR_VERSION and
\* JULIA_VERSION_MINOR is rejected when the library is built: the build
\* ends in an error exactly when they differ, and no entry point, the
\* initialization included, runs in a mismatched configuration.
C19_VersionMismatch ==
    /\ (tstate = "build_error") <=> (tstate # "source" /\ selected # minor)
    /\ (tstate \in {"built", "aborted", "ub"}) => selected = minor
    /\ (inited \/ last.entry # "none") => selected = minor

\* The build of a configuration that selects 11 against a runtime of
\* version 12 has ended in an error.
C19_Witness ==
    /\ selected = 11 /\ minor = 12 /\ tstate = "build_error"
    /\ ~inited /\ last.entry = "none"

\* --------------------------------------------- jlrs_c.c: the wrappers

\* A wrapper is called: jlrs_result_t out (uninitialised); JL_TRY.
result_wrapper_call ==
    /\ rpc = "idle" /\ rcalls < MaxCalls
    /\ rcalls' = rcalls + 1
    /\ wrapped' \in WrappedCalls
    /\ out' \in ResultT
    /\ saved' = Len(excstack)
    /\ eh' = eh + 1
    /\ rpc' = "try"
    /\ UNCHANGED <<lockVars, tableVars, extVars, variant, lts, tpc, cb, res, buf, buf0,
                   excstack, ret, ncb, calls, rret, previous_exception>>

\* out.data = (jl_value_t *)f(...); out.flag = JLRS_RESULT_VALUE, or
\* f(...); out.data = NULL; out.flag = JLRS_RESULT_VOID.
NormalOutAlwaysValue(w) == [flag |-> JLRS_RESULT_VALUE, data |-> w.value]
NormalOut(w) ==
    IF w.fn \in ValueWrappers
    THEN [flag |-> JLRS_RESULT_VALUE, data |-> w.value]
    ELSE [flag |-> JLRS_RESULT_VOID, data |-> NULL]

\* The wrapped function runs inside JL_TRY: it returns and the try block
\* ends (the handler is popped), or the runtime throws.
wrapped_runs ==
    /\ rpc = "try"
    /\ IF wrapped.throws
       THEN /\ excstack' = Append(excstack, wrapped.exc)
            /\ rpc' = "catch"
            /\ UNCHANGED <<out, eh>>
       ELSE /\ out' = NormalOut(wrapped)
            /\ eh' = eh - 1
            /\ rpc' = "clear"
            /\ UNCHANGED excstack
    /\ UNCHANGED <<lockVars, tableVars, extVars, variant, lts, tpc, cb, res, buf, buf0,
                   saved, ret, ncb, calls, wrapped, rret, previous_exception,
                   rcalls>>

\* JL_CATCH: out.data = jl_current_exception(); out.flag = JLRS_RESULT_ERR;
\* the block ends and jl_restore_excstack(__excstack_state) runs.
result_catch ==
    /\ rpc = "catch"
    /\ eh' = eh - 1
    /\ out' = [flag |-> JLRS_RESULT_ERR, data |-> jl_current_exception]
    /\ excstack' = jl_restore_excstack(saved)
    /\ rpc' = "clear"
    /\ UNCHANGED <<lockVars, tableVars, extVars, variant, lts, tpc, cb, res, buf, buf0,
                   saved, ret, ncb, calls, wrapped, rret, previous_exception,
                   rcalls>>

\* jl_exception_clear(); return out.
result_returns ==
    /\ rpc = "clear"
    /\ previous_exception' = NULL
    /\ rret' = out
    /\ rpc' = "idle"
    /\ UNCHANGED <<lockVars, tableVars, extVars, catchVars, wrapped, out, rcalls>>

\* Before the first call; an earlier jl_call may have left an exception in
\* ptls->previous_exception.
ResultInit ==
    /\ build = "hacks" /\ debug = TRUE /\ base = 0
    /\ LockStart
    /\ variant = "try_catch" /\ lts = FALSE
    /\ CatchStart
    /\ TableFixed
    /\ ExtStart
    /\ rpc = "idle"
    /\ wrapped = [fn |-> "jlrs_set_const", throws |-> FALSE, value |-> 1,
                  exc |-> 1]
    /\ out = [flag |-> JLRS_RESULT_VOID, data |-> NULL]
    /\ rret = [flag |-> JLRS_RESULT_VOID, data |-> NULL]
    /\ previous_exception \in {NULL} \cup Ptrs
    /\ rcalls = 0

ResultNext ==
    \/ result_wrapper_call
    \/ wrapped_runs
    \/ result_catch
    \/ result_returns

ResultSpec == ResultInit /\ [][ResultNext]_vars

\* C20: every jlrs_result_t returned by a wrapper of jlrs_c.c has flag
\* JLRS_RESULT_ERR iff the wrapped function raised, and then data is the
\* exception; JLRS_RESULT_VOID implies data is null; JLRS_RESULT_VALUE
\* carries the wrapped function's return value; and the runtime's exception
\* state is cleared before the wrapper returns, on both paths.
C20_ResultT ==
    (rpc = "idle" /\ rcalls > 0) =>
        /\ (rret.flag = JLRS_RESULT_ERR) <=> wrapped.throws
        /\ wrapped.throws => rret.data = wrapped.exc
        /\ (rret.flag = JLRS_RESULT_VOID) =>
               (rret.data = NULL /\ wrapped.fn \in VoidWrappers)
        /\ (rret.flag = JLRS_RESULT_VALUE) =>
               (rret.data = wrapped.value /\ wrapped.fn \in ValueWrappers)
        /\ excstack = <<>> /\ eh = 0
        /\ previous_exception = NULL

\* In its second call a wrapper of a function that returns nothing captured
\* an exception and returned it, with the exception state cleared.
C20_Witness ==
    /\ rpc = "idle" /\ rcalls = 2 /\ wrapped.throws
    /\ wrapped.fn = "jlrs_set_const" /\ wrapped.exc = 2
    /\ rret = [flag |-> JLRS_RESULT_ERR, data |-> 2]
    /\ excstack = <<>> /\ previous_exception = NULL


\* ------------------------------------------------------------------ C21
\* C21: progress of the spin lock.  While the callers keep their contract
\* (every release is by a holder) and every task's steps are weakly fair,
\* an Unlocked cell (no owner, a count of zero) with a task spinning in
\* acquire leads to a state in which some task holds the lock.
C21_SpinLockProgress ==
    (~violated /\ owner = NULL /\ count = 0 /\ \E t \in Tasks : Spinning(t))
        ~> (violated \/ \E t \in Tasks : Holds(t))

\* A task that had to spin returned from its acquire as the owner, after
\* the other task's release cleared the owner.
C21_Witness ==
    /\ ~violated
    /\ \E t \in Tasks : \E u \in Tasks \ {t} :
          /\ pc[t] = "idle" /\ owner = t /\ Holds(t)
          /\ log[t].op = "acquire" /\ log[t].slow
          /\ pc[u] = "idle" /\ log[u].op = "release" /\ log[u].cleared


\* ------------------- jlrs_cc.c / jlrs_cc_hacks.c: the two locks side by side

\* One step of t inside jlrs_lock_nogc / jlrs_unlock_nogc of jlrs_cc_hacks.c
\* (jlrs_mutex_wait with safepoint = 0, jlrs_mutex_unlock_nogc), on the cell
\* record s.  The first `owner == NULL && cmpswap` and the one at the head of
\* the loop are the positions "w_cas1" and "w_cas".
hacks_nogc_step(s, t) ==
    LET p == s.pc[t]
        r == CmpSwap(s.owner, s.ol[t], t)
        seen == Reload(s.owner, s.ol[t])
        dec == Dec(s.tmp[t])
    IN
    CASE p = "w_load" ->
           [s EXCEPT !.ol[t] = s.owner,
                     !.pc[t] = IF FastPath(s.owner, t) THEN "w_inc_r"
                               ELSE IF s.owner = NULL THEN "w_cas1"
                               ELSE "w_pause"]
      [] p = "w_inc_r" -> [s EXCEPT !.tmp[t] = s.count, !.pc[t] = "w_inc_w"]
      [] p = "w_inc_w" -> [s EXCEPT !.count = Inc(s.tmp[t]), !.pc[t] = "idle"]
      [] p \in {"w_cas1", "w_cas"} ->
           [s EXCEPT !.owner = r.cell, !.ol[t] = r.seen,
                     !.pc[t] = IF r.ok THEN "w_set1" ELSE "w_pause"]
      [] p = "w_set1" -> [s EXCEPT !.count = LockedCount, !.pc[t] = "idle"]
      [] p = "w_pause" ->
           [s EXCEPT !.ol[t] = seen,
                     !.pc[t] = IF seen = NULL THEN "w_cas" ELSE "w_pause"]
      [] p = "u_assert" ->
           IF s.owner = t
           THEN [s EXCEPT !.pc[t] = "u_dec_r"]
           ELSE [s EXCEPT !.pc = [u \in Tasks |-> "aborted"],
                          !.aborted = TRUE]
      [] p = "u_dec_r" -> [s EXCEPT !.tmp[t] = s.count, !.pc[t] = "u_dec_w"]
      [] p = "u_dec_w" ->
           [s EXCEPT !.count = dec,
                     !.pc[t] = IF DecIsZero(dec) THEN "u_store" ELSE "idle"]
      [] p = "u_store" ->
           [s EXCEPT !.owner = ReleasedOwner(t), !.pc[t] = "u_wake"]
      [] p = "u_wake" -> [s EXCEPT !.pc[t] = "idle"]
      [] OTHER -> s

\* One step of t inside jlrs_lock / jlrs_unlock of jlrs_cc.c (jlrs_cc.cc is
\* the same text), on the cell record s.
cc_lock_step(s, t) ==
    LET p == s.pc[t]
        r == CmpSwap(s.owner, s.ol[t], t)
        seen == Reload(s.owner, s.ol[t])
        dec == Dec(s.tmp[t])
    IN
    CASE p = "c_load" ->
           [s EXCEPT !.ol[t] = s.owner,
                     !.pc[t] = IF FastPath(s.owner, t) THEN "c_inc_r"
                               ELSE IF s.owner = NULL THEN "c_cas"
                               ELSE "c_pause"]
      [] p = "c_inc_r" -> [s EXCEPT !.tmp[t] = s.count, !.pc[t] = "c_inc_w"]
      [] p = "c_inc_w" -> [s EXCEPT !.count = Inc(s.tmp[t]), !.pc[t] = "idle"]
      [] p = "c_cas" ->
           [s EXCEPT !.owner = r.cell, !.ol[t] = r.seen,
                     !.pc[t] = IF r.ok THEN "c_set1" ELSE "c_pause"]
      [] p = "c_set1" -> [s EXCEPT !.count = LockedCount, !.pc[t] = "idle"]
      [] p = "c_pause" ->
           [s EXCEPT !.ol[t] = seen,
                     !.pc[t] = IF seen = NULL THEN "c_cas" ELSE "c_pause"]
      [] p = "c_dec_r" -> [s EXCEPT !.tmp[t] = s.count, !.pc[t] = "c_dec_w"]
      [] p = "c_dec_w" ->
           [s EXCEPT !.count = dec,
                     !.pc[t] = IF DecIsZero(dec) THEN "c_store" ELSE "idle"]
      [] p = "c_store" ->
           [s EXCEPT !.owner = ReleasedOwner(t), !.pc[t] = "c_wake"]
      [] p = "c_wake" -> [s EXCEPT !.pc[t] = "idle"]
      [] OTHER -> s

\* The same task calls acquire on both cells.
equiv_acquire(t) ==
    /\ ccell.pc[t] = "idle" /\ hcell.pc[t] \in {"idle", "aborted"}
    /\ ecalls[t] < MaxCalls
    /\ ecalls' = [ecalls EXCEPT ![t] = @ + 1]
    /\ hcell' = IF hcell.aborted THEN hcell ELSE [hcell EXCEPT !.pc[t] = "w_load"]
    /\ ccell' = [ccell EXCEPT !.pc[t] = "c_load"]
    /\ UNCHANGED <<lockVars, catchVars, tableVars, resultVars, frameVars, allocVars, moveVars,
                   unowned>>

\* The same task calls release on both cells, as the owner or not.
equiv_release(t) ==
    /\ ccell.pc[t] = "idle" /\ hcell.pc[t] \in {"idle", "aborted"}
    /\ ecalls[t] < MaxCalls
    /\ ecalls' = [ecalls EXCEPT ![t] = @ + 1]
    /\ unowned' = (unowned \/ ccell.owner # t)
    /\ hcell' = IF hcell.aborted THEN hcell
                ELSE [hcell EXCEPT !.pc[t] = IF debug THEN "u_assert"
                                                 ELSE "u_dec_r"]
    /\ ccell' = [ccell EXCEPT !.pc[t] = "c_dec_r"]
    /\ UNCHANGED <<lockVars, catchVars, tableVars, resultVars, frameVars, allocVars, moveVars>>

\* The next memory access of t, made on both cells; the assert of
\* jlrs_mutex_unlock_nogc has no counterpart in jlrs_unlock of jlrs_cc.c, and
\* after a failed assert only the jlrs_cc.c process is left to run.
equiv_step(t) ==
    /\ ccell.pc[t] # "idle"
    /\ hcell' = IF hcell.aborted THEN hcell ELSE hacks_nogc_step(hcell, t)
    /\ ccell' = IF ~hcell.aborted /\ hcell.pc[t] = "u_assert" THEN ccell
                ELSE cc_lock_step(ccell, t)
    /\ UNCHANGED <<lockVars, catchVars, tableVars, resultVars, frameVars, allocVars, moveVars,
                   unowned, ecalls>>

EquivNext ==
    \E t \in Tasks :
        \/ equiv_acquire(t)
        \/ equiv_release(t)
        \/ equiv_step(t)

\* Both cells Unlocked; assertions compiled in or not.
EquivInit == Init /\ build = "hacks"

EquivSpec == EquivInit /\ [][EquivNext]_vars

\* ------------------------------------------------------------------ C22
\* C22: the older lock of jlrs_cc.c and the bare lock of jlrs_cc_hacks.c are
\* equivalent on the Mutex Cell: under the same interleaving of the same
\* acquire / release calls, whenever a task is at an operation boundary under
\* one it is at that boundary under the other, and the two cells hold the same
\* (owner, count).
C22_OlderVsBare ==
    \A t \in Tasks :
        ccell.pc[t] = "idle"
            => /\ hcell.pc[t] = "idle"
               /\ hcell.owner = ccell.owner /\ hcell.count = ccell.count


\* ------------------------------------------------------------------ C23
\* C23: jlrs_lock_frame_push.  The push at the end of a tracked acquire
\* increases the thread's lock-stack length by exactly one and stores the
\* lock at the previous length, an index below the capacity afterwards, on
\* the growth path as well, whether or not the allocation succeeds.
C23_FramePush ==
    [][\A t \in Tasks :
          (mode[t] = "tracked" /\ pc[t] \in {"w_inc_w", "w_set1"}
           /\ pc'[t] = "idle")
          => /\ locks_len'[t] = locks_len[t] + 1
             /\ locks_len[t] < locks_max'[t]]_vars


\* ------------------------------------------------------------------ C24
\* C24: signal deferral is balanced across the tracked lock.  While every
\* release is by a holder: between calls a task's deferral depth is its
\* initial value (zero) plus its tracked acquires not yet released; inside
\* jlrs_lock, from before the wait on, and inside jlrs_unlock, until after
\* the release, it is one more than that; and it is nonzero whenever the task
\* holds a tracked lock.
C24_SignalDeferral ==
    ContractKept =>
        \A t \in Tasks :
            /\ pc[t] = "idle" => defer_signal[t] = held[t].tracked
            /\ (mode[t] = "tracked" /\ pc[t] \notin {"idle", "aborted"})
                   => defer_signal[t] = held[t].tracked + 1
            /\ held[t].tracked > 0 => defer_signal[t] > 0

\* A task is between calls after two tracked acquires and one tracked
\* release, still holding the cell.
C24_Witness ==
    \E t \in Tasks :
        /\ ContractKept /\ pc[t] = "idle" /\ build = "hacks"
        /\ held[t].tracked = 1 /\ defer_signal[t] = 1
        /\ log[t].op = "release" /\ log[t].cnt0 = 2 /\ owner = t


\* --------- jlrs_cc/jlrs_cc_ext.c: jlrs_unsized_scope, jlrs_call_unchecked

\* JL_GC_PUSHARGS(rts_var, n): a frame of n roots is linked on top of the
\* task's GC-frame stack, and rts_var points at its first root, two words
\* past its header.
JL_GC_PUSHARGS(stack, n) ==
    [stack |-> Append(stack, n),
     var |-> [frame |-> Len(stack) + 1, off |-> 2]]

\* JL_GC_POP(): the top frame is unlinked.
JL_GC_POP_Skipped(stack) == stack

JL_GC_POP(stack) == SubSeq(stack, 1, Len(stack) - 1)

\* (jl_gcframe_t *)&(((void **)args)[-2]): two words before args.
FrameOf(args) == [args EXCEPT !.off = @ - 2]

\* The task as a call finds it or leaves it.
TaskNow(fn, how, size) ==
    [fn |-> fn, how |-> how, world_age |-> world_age, gcstack |-> gcstack,
     counter |-> world_counter, size |-> size]

\* jl_value_t *jlrs_call_unchecked(f, args, nargs), up to the jl_apply: the
\* argument frame of nargs + 1 roots is pushed, the world age saved and set
\* to the world counter.
jlrs_call_unchecked(nargs, throws) ==
    LET pushed == JL_GC_PUSHARGS(gcstack, nargs + 1) IN
    /\ fpc = "idle" /\ fcalls < MaxCalls
    /\ fcalls' = fcalls + 1
    /\ found' = TaskNow("jlrs_call_unchecked", "call", nargs)
    /\ left' = NoCall
    /\ got' = <<>>
    /\ fthrows' = throws
    /\ gcstack' = pushed.stack
    /\ argp' = pushed.var
    /\ last_age' = world_age
    /\ world_age' = world_counter
    /\ fpc' = "apply"
    /\ UNCHANGED <<lockVars, catchVars, tableVars, resultVars, equivVars, allocVars, moveVars,
                   world_counter>>

\* The applied function, or the trampoline's callback, defines a method: the
\* global world counter advances.
world_advances ==
    /\ fpc \in {"apply", "scope"}
    /\ world_counter < MaxWorld
    /\ world_counter' = world_counter + 1
    /\ UNCHANGED <<lockVars, catchVars, tableVars, resultVars, equivVars, allocVars, moveVars,
                   fpc, world_age, gcstack, last_age, argp, fthrows, got,
                   found, left, fcalls>>

\* v = jl_apply(argv, nargs) returns: ct->world_age = last_age; JL_GC_POP();
\* return v.
jl_apply_returns ==
    /\ fpc = "apply" /\ ~fthrows
    /\ world_age' = last_age
    /\ gcstack' = JL_GC_POP(gcstack)
    /\ left' = [TaskNow("jlrs_call_unchecked", "return", found.size)
                  EXCEPT !.world_age = world_age', !.gcstack = gcstack']
    /\ fpc' = "idle"
    /\ UNCHANGED <<lockVars, catchVars, tableVars, resultVars, equivVars, allocVars, moveVars,
                   world_counter, last_age, argp, fthrows, got, found, fcalls>>

\* jl_apply raises: control leaves jlrs_call_unchecked from inside the call,
\* to the handler of whoever called it; the two statements after jl_apply
\* are not executed.
jl_apply_throws ==
    /\ fpc = "apply" /\ fthrows
    /\ left' = TaskNow("jlrs_call_unchecked", "throw", found.size)
    /\ fpc' = "thrown"
    /\ UNCHANGED <<lockVars, catchVars, tableVars, resultVars, equivVars, allocVars, moveVars,
                   world_age, world_counter, gcstack, last_age, argp, fthrows,
                   got, found, fcalls>>

\* void jlrs_unsized_scope(frame_size, trampoline, callback, result), up to
\* and with the call of the trampoline: JL_GC_PUSHARGS(args, frame_size);
\* trampoline((jl_gcframe_t *)&(((void **)args)[-2]), callback, result).
jlrs_unsized_scope(frame_size, throws) ==
    LET pushed == JL_GC_PUSHARGS(gcstack, frame_size) IN
    /\ fpc = "idle" /\ fcalls < MaxCalls
    /\ fcalls' = fcalls + 1
    /\ found' = TaskNow("jlrs_unsized_scope", "call", frame_size)
    /\ left' = NoCall
    /\ fthrows' = throws
    /\ gcstack' = pushed.stack
    /\ argp' = pushed.var
    /\ got' = <<FrameOf(pushed.var)>>
    /\ fpc' = "scope"
    /\ UNCHANGED <<lockVars, catchVars, tableVars, resultVars, equivVars, allocVars, moveVars,
                   world_age, world_counter, last_age>>

\* The trampoline pushes a GC frame of its own above the one it was given.
trampoline_push(n) ==
    /\ fpc = "scope"
    /\ Len(gcstack) < Len(found.gcstack) + 1 + MaxDepth
    /\ gcstack' = JL_GC_PUSHARGS(gcstack, n).stack
    /\ UNCHANGED <<lockVars, catchVars, tableVars, resultVars, equivVars, allocVars, moveVars,
                   fpc, world_age, world_counter, last_age, argp, fthrows,
                   got, found, left, fcalls>>

\* The trampoline pops a frame of its own.
trampoline_pop ==
    /\ fpc = "scope"
    /\ Len(gcstack) > Len(found.gcstack) + 1
    /\ gcstack' = JL_GC_POP(gcstack)
    /\ UNCHANGED <<lockVars, catchVars, tableVars, resultVars, equivVars, allocVars, moveVars,
                   fpc, world_age, world_counter, last_age, argp, fthrows,
                   got, found, left, fcalls>>

\* The trampoline returns normally, its own frames popped: JL_GC_POP().
trampoline_returns ==
    /\ fpc = "scope" /\ ~fthrows
    /\ Len(gcstack) = Len(found.gcstack) + 1
    /\ gcstack' = JL_GC_POP(gcstack)
    /\ left' = [TaskNow("jlrs_unsized_scope", "return", found.size)
                  EXCEPT !.gcstack = gcstack']
    /\ fpc' = "idle"
    /\ UNCHANGED <<lockVars, catchVars, tableVars, resultVars, equivVars, allocVars, moveVars,
                   world_age, world_counter, last_age, argp, fthrows, got,
                   found, fcalls>>

\* The trampoline raises: control leaves jlrs_unsized_scope from inside the
\* call.
trampoline_throws ==
    /\ fpc = "scope" /\ fthrows
    /\ left' = TaskNow("jlrs_unsized_scope", "throw", found.size)
    /\ fpc' = "thrown"
    /\ UNCHANGED <<lockVars, catchVars, tableVars, resultVars, equivVars, allocVars, moveVars,
                   world_age, world_counter, gcstack, last_age, argp, fthrows,
                   got, found, fcalls>>

\* The caller's task: a world age not above the world counter, and the GC
\* frames the caller has pushed.
FrameInit ==
    /\ build = "hacks" /\ debug = TRUE /\ base = 0
    /\ LockStart
    /\ variant = "try_catch" /\ lts = FALSE
    /\ CatchStart
    /\ TableFixed
    /\ ResultStart
    /\ EquivStart /\ PureStart
    /\ FrameLocals
    /\ world_counter \in 1..MaxWorld
    /\ world_age \in 1..world_counter
    /\ gcstack \in {<<>>, <<1>>}

FrameNext ==
    \/ \E n \in 0..MaxArgs : \E throws \in BOOLEAN :
           jlrs_call_unchecked(n, throws)
    \/ world_advances
    \/ jl_apply_returns
    \/ jl_apply_throws
    \/ \E n \in 0..MaxArgs : \E throws \in BOOLEAN :
           jlrs_unsized_scope(n, throws)
    \/ \E n \in 0..MaxArgs : trampoline_push(n)
    \/ trampoline_pop
    \/ trampoline_returns
    \/ trampoline_throws

FrameSpec == FrameInit /\ [][FrameNext]_vars

\* ------------------------------------------------------------------ C25
\* C25: jlrs_call_unchecked leaves the calling task's world age and GC-frame
\* stack exactly as the call found them on every way control leaves it, by
\* return and by an exception of the applied function; in between, the world
\* age is the world counter as read before jl_apply.
C25_CallUnchecked ==
    /\ left.fn = "jlrs_call_unchecked"
          => /\ left.world_age = found.world_age
             /\ left.gcstack = found.gcstack
    /\ fpc = "apply" => world_age = found.counter

\* ------------------------------------------------------------------ C26
\* C26: jlrs_unsized_scope pushes one GC frame of frame_size roots, calls
\* the trampoline exactly once, with a pointer to that frame's header, and
\* pops the frame after the trampoline has returned normally: the GC-frame
\* stack on return is the stack on found, for every frame_size.
C26_UnsizedScope ==
    /\ (fpc = "scope" \/ left.fn = "jlrs_unsized_scope")
          => /\ got = <<[frame |-> Len(found.gcstack) + 1, off |-> 0]>>
    /\ fpc = "scope"
          => /\ Len(gcstack) >= Len(found.gcstack) + 1
             /\ SubSeq(gcstack, 1, Len(found.gcstack) + 1)
                    = Append(found.gcstack, found.size)
    /\ (left.fn = "jlrs_unsized_scope" /\ left.how = "return")
          => left.gcstack = found.gcstack

\* jlrs_unsized_scope has returned from a scope of two roots, entered below
\* a frame of the caller, whose trampoline pushed frames of its own; it was
\* the second call.
C26_Witness ==
    /\ fpc = "idle" /\ fcalls = 2
    /\ left.fn = "jlrs_unsized_scope" /\ left.how = "return"
    /\ found.size = 2 /\ found.gcstack = <<1>> /\ gcstack = <<1>>
    /\ Len(got) = 1


\* ------------- jlrs_cc.c, jlrs_cc/jlrs_cc_ext.c: the tuple scratch buffers

\* The argument of alloca in fn of file, called with n (rank) on a target
\* with pointers of word bytes: rank * sizeof(void *) in jlrs_dimtuple_type
\* of jlrs_cc_ext.c, n (rank) itself everywhere else.
AllocaArg(file, fn, n, word) ==
    IF file = "jlrs_cc_ext.c" /\ fn = "jlrs_dimtuple_type"
    THEN n * word
    ELSE n

\* jlrs_tuple_of(values, n) / jlrs_dimtuple_type(rank): the alloca.
tuple_call(file, fn, n, word) ==
    /\ apc = "idle" /\ acalls < MaxCalls
    /\ acalls' = acalls + 1
    /\ acall' = [file |-> file, fn |-> fn, n |-> n, word |-> word]
    /\ abytes' = AllocaArg(file, fn, n, word)
    /\ ai' = 0
    /\ aover' = FALSE
    /\ apc' = "loop"
    /\ UNCHANGED <<lockVars, catchVars, tableVars, resultVars, equivVars,
                   frameVars, moveVars>>

\* for (i = 0; i < n; ++i) types[i] = ... / params[i] = ...: one write of a
\* pointer at byte offset i * sizeof(void *).
tuple_write ==
    /\ apc = "loop" /\ ai < acall.n
    /\ aover' = (aover \/ (ai + 1) * acall.word > abytes)
    /\ ai' = ai + 1
    /\ UNCHANGED <<lockVars, catchVars, tableVars, resultVars, equivVars,
                   frameVars, moveVars, apc, acall, abytes, acalls>>

\* The loop ends; jl_apply_tuple_type_v and the return.
tuple_returns ==
    /\ apc = "loop" /\ ~(ai < acall.n)
    /\ apc' = "idle"
    /\ UNCHANGED <<lockVars, catchVars, tableVars, resultVars, equivVars,
                   frameVars, moveVars, acall, abytes, ai, aover, acalls>>

\* Either function of either file that defines them, a length and the
\* target's sizeof(void *), 4 or 8 bytes.
AllocNext ==
    \/ \E file \in {"jlrs_cc.c", "jlrs_cc_ext.c"} :
       \E fn \in {"jlrs_tuple_of", "jlrs_dimtuple_type"} :
       \E n \in 0..MaxRank : \E word \in {4, 8} :
           tuple_call(file, fn, n, word)
    \/ tuple_write
    \/ tuple_returns

AllocSpec == HacksInit /\ [][AllocNext]_vars

\* ------------------------------------------------------------------ C27
\* C27: the scratch buffer of jlrs_tuple_of and jlrs_dimtuple_type holds at
\* least n * sizeof(void *) bytes (rank * sizeof(void *)), so every write
\* types[i] / params[i] with i < n stays inside it.
C27_ScratchBuffer ==
    /\ acall.fn # "none" => abytes >= acall.n * acall.word
    /\ ~aover

\* ------------------------------- jlrs_cc/jlrs_cc_hacks.h: jlrs_memmove_refs

\* `dstp < srcp || dstp > srcp + n`: the copy runs from the first slot up;
\* otherwise from the last slot down.
CopiesUpAlways(dst, src, n) == TRUE

CopiesUp(dst, src, n) == dst < src \/ dst > src + n

\* The slot pair of step i (0-based): i in the first loop, n - i - 1 in the
\* second.
CopyOffset(dst, src, n, i) == IF CopiesUp(dst, src, n) THEN i ELSE n - i - 1

\* jlrs_memmove_refs(dstp, srcp, n) is called on two ranges of n slots.
jlrs_memmove_refs(dst, src, n) ==
    /\ mpc = "idle"
    /\ margs' = [dst |-> dst, src |-> src, n |-> n]
    /\ mem0' = mem
    /\ mi' = 0
    /\ mpc' = "copy"
    /\ UNCHANGED <<lockVars, catchVars, tableVars, resultVars, equivVars,
                   frameVars, allocVars, mem>>

\* One pass of either loop: jl_atomic_store_release(dstp + k,
\* jl_atomic_load_relaxed(srcp + k)).
memmove_copy ==
    LET k == CopyOffset(margs.dst, margs.src, margs.n, mi) IN
    /\ mpc = "copy" /\ mi < margs.n
    /\ mem' = [mem EXCEPT ![margs.dst + k] = mem[margs.src + k]]
    /\ mi' = mi + 1
    /\ UNCHANGED <<lockVars, catchVars, tableVars, resultVars, equivVars,
                   frameVars, allocVars, mpc, mem0, margs>>

\* The loop ends and the function returns.
memmove_returns ==
    /\ mpc = "copy" /\ ~(mi < margs.n)
    /\ mpc' = "done"
    /\ UNCHANGED <<lockVars, catchVars, tableVars, resultVars, equivVars,
                   frameVars, allocVars, mem, mem0, margs, mi>>

MoveNext ==
    \/ \E n \in 0..MemLen :
       \E dst \in 1..(MemLen - n + 1) : \E src \in 1..(MemLen - n + 1) :
           jlrs_memmove_refs(dst, src, n)
    \/ memmove_copy
    \/ memmove_returns

MoveSpec == HacksInit /\ [][MoveNext]_vars

\* ------------------------------------------------------------------ C28
\* C28: jlrs_memmove_refs behaves like memmove on pointer slots.  For every n
\* and every position of source and destination, overlapping in either
\* direction or not, after the call dst[i] is the value src[i] had before
\* the call for all i < n, and no other slot has changed.
C28_MemmoveRefs ==
    mpc = "done" =>
        /\ \A i \in 0..(margs.n - 1) :
               mem[margs.dst + i] = mem0[margs.src + i]
        /\ \A j \in 1..MemLen :
               (j < margs.dst \/ j >= margs.dst + margs.n) => mem[j] = mem0[j]

\* A move of three slots to the next higher index has returned: the ranges
\* overlap with the destination above the source.
C28_Witness ==
    /\ mpc = "done"
    /\ margs = [dst |-> 2, src |-> 1, n |-> 3]
    /\ mem[2] = 1 /\ mem[4] = 3

====
